---- MODULE Spec2Model ----
(***************************************************************************)
(* py-burnin-plugin: the plugin execution state machine (BurnInPlugin),    *)
(* the shared-memory connection (PluginConnection) and the typed accessor  *)
(* (PluginInterface) over the shared Record, as a state machine.           *)
(*                                                                         *)
(* The host is a second process that owns the Record's two input fields    *)
(* and may change them between any two steps of the plugin.  stop() may be *)
(* called between any two steps of run() (from a callback, a signal        *)
(* handler or another thread).  Hooks and phase callbacks are plugin code: *)
(* every one of them may return or raise.                                  *)
(***************************************************************************)
EXTENDS Integers, Sequences, FiniteSets, TLC

VARIABLES
    pc,              \* position of run() in its code
    is_running,      \* BurnInPlugin._is_running
    current_cycle,   \* BurnInPlugin._current_cycle
    current_phase,   \* BurnInPlugin._current_phase
    phase_idx,       \* index of the for loop of _execute_test_phases
    eng_connection,  \* BurnInPlugin._connection is not None
    eng_interface,   \* BurnInPlugin._interface is not None
    conn,            \* the PluginConnection object's fields
    os,              \* the transport (kernel32): whether a view / a handle is
                     \* still open, and how many views and handles were obtained
                     \* and not yet handed back to UnmapViewOfFile / CloseHandle
    rec,             \* the shared Record (PLUGININTERFACE)
    exc,             \* the exception propagating in run(), "none" if none
    exc_len,         \* length of the text of the exception a phase raised
    sleep_time,      \* the last pacing pause, in hundredths of a second
    plugin,          \* the concrete plugin: its name, whether it overrides
                     \* hooks, whether it defines on_test_end
    hist             \* observation of the calls made so far (history)

vars == <<pc, is_running, current_cycle, current_phase, phase_idx,
          eng_connection, eng_interface, conn, os, rec, exc, exc_len,
          sleep_time, plugin, hist>>

(***************************************************************************)
(* Program constants.                                                      *)
(***************************************************************************)
PLUGIN_MAXDISPLAYTEXT == 20
PLUGIN_MAXERRORTEXT == 100
PLUGIN_MAXERRORTEXTLONG == 201
INTERFACE_VERSION == 4
DelayUnit == 2        \* BurnInPlugin's default delay, in hundredths of a second
SHARED_MEMORY_PREFIX == "BI"

SEVERITY_NONE == 0
SEVERITY_CRITICAL == 4
SEVERITY_TERMINAL == 5
PluginPack == 0       \* PluginInterfaceStructure sets no _pack_
HostPack == 1         \* PLUGININTERFACE._pack_
PLUGIN_NOSTATUS == 0
PLUGIN_STARTUP == 1
PLUGIN_WRITING == 3
PLUGIN_CLEANUP == 7

Phases == <<"Write", "Read", "Verify">>

(***************************************************************************)
(* Bounds of the model.                                                    *)
(***************************************************************************)
MaxExcLen == 75       \* longest exception text a callback raises
MaxStopCalls == 2     \* calls of stop() from outside run()
MaxRejected == 1      \* calls of run() made while the engine is running
MaxOps == 2           \* calls made on an accessor
MaxCalls == 2         \* calls of the accessor made beside the host
MaxCounterOps == 3    \* calls made on the counters of an accessor
WordBits == 3         \* scaled width of c_int and c_uint (32 bits)
WideBits == 4         \* scaled width of c_int64 (64 bits)
MaxTextLen == 3       \* length of an input of strn_clean_cpy
MaxWidth == 4         \* max_len of strn_clean_cpy

ExcLens == {0} \cup (72..MaxExcLen)
DutyValues == {0, 50, 100}
ShmNames == {"BITest_1", "Test_1", "B", "biTest_1"}
PluginNames == {"Demo plugin", "A plugin with long name"}

(***************************************************************************)
(* Texts.  An error message is kept as what it names and how long it is.   *)
(***************************************************************************)
NoMessage == [kind |-> "none", phase |-> "", len |-> 0]

\* f"{phase} phase failed."
FailedMessage(phase) ==
    [kind |-> "failed", phase |-> phase,
     len |-> Len(phase) + Len(" phase failed.")]

\* f"Exception in {phase} phase: {e}"
ExceptionMessage(phase, elen) ==
    [kind |-> "exception", phase |-> phase,
     len |-> Len("Exception in ") + Len(phase) + Len(" phase: ") + elen]

\* a check of the name that accepts everything
StartsWithAny(s, prefix) == TRUE

\* str.startswith
StartsWith(s, prefix) ==
    /\ Len(s) >= Len(prefix)
    /\ SubSeq(s, 1, Len(prefix)) = prefix

(***************************************************************************)
(* PluginInterface: the accessor operations the engine and the connection  *)
(* use.  Each takes a Record and gives [ok, rec]: ok = FALSE is a          *)
(* ValidationError, raised before anything is written.                     *)
(***************************************************************************)
ValidLabel(label) == Len(label) < PLUGIN_MAXDISPLAYTEXT

SetErrorMessage(r, message) ==
    IF message.len >= PLUGIN_MAXERRORTEXT
    THEN [ok |-> FALSE, rec |-> r]
    ELSE [ok |-> TRUE,
          rec |-> [r EXCEPT !.error_message = message, !.new_error = TRUE]]

SetError(r, message, severity) ==
    LET m == SetErrorMessage(r, message)
    IN  IF ~m.ok
        THEN m
        ELSE [ok |-> TRUE,
              rec |-> [m.rec EXCEPT !.error_severity = severity,
                                    !.error_count = @ + 1]]

SetStatus(r, status) ==
    IF Len(status) >= PLUGIN_MAXDISPLAYTEXT
    THEN [ok |-> FALSE, rec |-> r]
    ELSE [ok |-> TRUE, rec |-> [r EXCEPT !.status = status, !.new_status = TRUE]]

SetUserField(r, id, label, value, enabled) ==
    IF id \notin 1..6
    THEN [ok |-> FALSE, rec |-> r]
    ELSE [ok |-> TRUE,
          rec |-> [r EXCEPT !.user_label[id] = label,
                            !.user_value[id] = value,
                            !.user_enabled[id] = enabled,
                            !.new_user = [k \in 1..2 |->
                                            IF k = id THEN TRUE ELSE @[k]]]]

(***************************************************************************)
(* PluginConnection.                                                       *)
(***************************************************************************)
NewConnection ==
    [is_connected |-> FALSE, file_mapping_handle |-> FALSE,
     mapped_address |-> FALSE, interface |-> FALSE,
     shared_memory_name |-> "None"]

\* the defaults of _initialize_interface, lines 243-259
DefaultVersion == 4
NumInitSteps == 9

\* the i-th write of _initialize_interface
InitStep(r, i) ==
    CASE i = 1 -> [r EXCEPT !.interface_version = DefaultVersion]
      [] i = 2 -> [r EXCEPT !.write_label = "Write (MBytes):"]
      [] i = 3 -> [r EXCEPT !.read_label = "Read (MBytes):"]
      [] i = 4 -> [r EXCEPT !.verify_label = "Verify (MBytes):"]
      [] i = 5 -> SetStatus(r, "Initializing").rec
      [] i = 6 -> [r EXCEPT !.status_code = PLUGIN_STARTUP]
      [] i = 7 -> SetUserField(r, 1, "Custom Field 1", "Ready", TRUE).rec
      [] i = 8 -> SetUserField(r, 2, "Custom Field 2", "Ready", TRUE).rec
      [] i = 9 -> [r EXCEPT !.display_text_set = TRUE]

\* the Record after the first k writes of _initialize_interface
RECURSIVE InitPrefix(_, _)
InitPrefix(r, k) == IF k = 0 THEN r ELSE InitStep(InitPrefix(r, k - 1), k)

\* an initialisation that stops before its last write
InitializeInterfaceShort(r) == InitPrefix(r, NumInitSteps - 1)

\* _initialize_interface: the defaults written after mapping
InitializeInterface(r) == InitPrefix(r, NumInitSteps)

\* what the transport and the accessor do during one connect(): whether
\* OpenFileMapping, MapViewOfFile and the construction of the accessor
\* succeed, how many writes of _initialize_interface succeed before one
\* raises (an access violation surfaces as OSError), and whether
\* UnmapViewOfFile and CloseHandle report success; an outcome that the call
\* never gets to consult is fixed
Transports ==
    {t \in [open : BOOLEAN, map : BOOLEAN, ctor : BOOLEAN,
            init : 0..NumInitSteps, unmap : BOOLEAN, close : BOOLEAN] :
        /\ ~t.open => (t.map /\ t.close)
        /\ ~t.map => (t.ctor /\ t.unmap)
        /\ (~t.open \/ ~t.map) => t.init = NumInitSteps
        /\ ~t.ctor => t.init = NumInitSteps
        /\ (t.open /\ t.map /\ t.ctor /\ t.init = NumInitSteps) =>
               (t.unmap /\ t.close)}

\* _cleanup_handles: unmap, then close; both references are dropped whether
\* or not the transport reports success.  Gives [conn, os, calls].
CleanupHandles(c, o, unmapOk, closeOk) ==
    [conn |-> [c EXCEPT !.mapped_address = FALSE,
                        !.file_mapping_handle = FALSE],
     os |-> [mapped |-> IF c.mapped_address /\ unmapOk THEN FALSE ELSE o.mapped,
             handle |-> IF c.file_mapping_handle /\ closeOk
                        THEN FALSE ELSE o.handle,
             n_views |-> IF c.mapped_address THEN o.n_views - 1 ELSE o.n_views,
             n_handles |-> IF c.file_mapping_handle
                           THEN o.n_handles - 1 ELSE o.n_handles],
     calls |-> (IF c.mapped_address THEN <<"unmap">> ELSE <<>>)
               \o (IF c.file_mapping_handle THEN <<"close">> ELSE <<>>)]

\* a release that closes the handle before it unmaps the view
CleanupHandlesCloseFirst(c, o, unmapOk, closeOk) ==
    [conn |-> [c EXCEPT !.mapped_address = FALSE,
                        !.file_mapping_handle = FALSE],
     os |-> [mapped |-> IF c.mapped_address /\ unmapOk THEN FALSE ELSE o.mapped,
             handle |-> IF c.file_mapping_handle /\ closeOk
                        THEN FALSE ELSE o.handle,
             n_views |-> IF c.mapped_address THEN o.n_views - 1 ELSE o.n_views,
             n_handles |-> IF c.file_mapping_handle
                           THEN o.n_handles - 1 ELSE o.n_handles],
     calls |-> (IF c.file_mapping_handle THEN <<"close">> ELSE <<>>)
               \o (IF c.mapped_address THEN <<"unmap">> ELSE <<>>)]

\* the release of disconnect(), lines 210-211
ReleaseHandles(c, o, unmapOk, closeOk) == CleanupHandles(c, o, unmapOk, closeOk)

\* a connected instance that connect() does not recognise
NeverConnected(c) == FALSE

\* line 126
AlreadyConnected(c) == c.is_connected

\* a map failure that raises without releasing the handle
MapFailedNoCleanup(c, o, t) == [conn |-> c, os |-> o, calls |-> <<>>]

\* lines 160-164: MapViewOfFile failed
MapFailed(c, o, t) == CleanupHandles(c, o, t.unmap, t.close)

\* connect(shared_memory_name) under the transport outcomes t: gives
\* [raised, outcome, conn, os, rec, calls]; calls is the sequence of transport
\* calls made
Connect(c, o, r, name, t) ==
    IF AlreadyConnected(c)
    THEN [raised |-> FALSE, outcome |-> "already", conn |-> c, os |-> o,
          rec |-> r, calls |-> <<>>]
    ELSE IF ~StartsWith(name, SHARED_MEMORY_PREFIX)
    THEN [raised |-> TRUE, outcome |-> "badname", conn |-> c, os |-> o,
          rec |-> r, calls |-> <<>>]
    ELSE IF ~t.open
    THEN [raised |-> TRUE, outcome |-> "openfail",
          conn |-> [c EXCEPT !.shared_memory_name = name,
                             !.file_mapping_handle = FALSE],
          os |-> o, rec |-> r, calls |-> <<"open">>]
    ELSE LET opened == [c EXCEPT !.shared_memory_name = name,
                                 !.file_mapping_handle = TRUE]
             o1 == [o EXCEPT !.handle = TRUE, !.n_handles = @ + 1]
             mapped == [opened EXCEPT !.mapped_address = TRUE]
             o2 == [o1 EXCEPT !.mapped = TRUE, !.n_views = @ + 1]
             held == [mapped EXCEPT !.interface = TRUE]
         IN  IF ~t.map
             THEN LET cl == MapFailed([opened EXCEPT !.mapped_address = FALSE],
                                      o1, t)
                  IN  [raised |-> TRUE, outcome |-> "mapfail",
                       conn |-> cl.conn, os |-> cl.os, rec |-> r,
                       calls |-> <<"open", "map">> \o cl.calls]
             ELSE IF ~t.ctor
             THEN LET cl == CleanupHandles(mapped, o2, t.unmap, t.close)
                  IN  [raised |-> TRUE, outcome |-> "ctorfail",
                       conn |-> cl.conn, os |-> cl.os, rec |-> r,
                       calls |-> <<"open", "map">> \o cl.calls]
             ELSE IF t.init < NumInitSteps
             THEN LET cl == CleanupHandles(held, o2, t.unmap, t.close)
                  IN  [raised |-> TRUE, outcome |-> "initfail",
                       conn |-> cl.conn, os |-> cl.os,
                       rec |-> InitPrefix(r, t.init),
                       calls |-> <<"open", "map">> \o cl.calls]
             ELSE [raised |-> FALSE, outcome |-> "ok",
                   conn |-> [held EXCEPT !.is_connected = TRUE],
                   os |-> o2, rec |-> InitializeInterface(r),
                   calls |-> <<"open", "map">>]

\* the best-effort writes of disconnect(), lines 204-205
NumDisconnectWrites == 2

\* best-effort writes that also clear the host's test_running
DisconnectWritesClearInput(r, k) ==
    [rec |-> [r EXCEPT !.test_stopped = IF k >= 1 THEN TRUE ELSE @,
                       !.test_running = IF k >= 1 THEN 0 ELSE @,
                       !.status_code = IF k >= 2 THEN PLUGIN_CLEANUP ELSE @],
     calls |-> SubSeq(<<"set_test_stopped", "set_status_code">>, 1, k)]

\* the first k of them: test_stopped, then the status code
DisconnectWrites(r, k) ==
    [rec |-> [r EXCEPT !.test_stopped = IF k >= 1 THEN TRUE ELSE @,
                       !.status_code = IF k >= 2 THEN PLUGIN_CLEANUP ELSE @],
     calls |-> SubSeq(<<"set_test_stopped", "set_status_code">>, 1, k)]

\* a disconnect() that gives up when a best-effort write raises
WriteFailureAborts(writes) == writes < NumDisconnectWrites

\* lines 201-208: an exception of the best-effort writes is logged and
\* swallowed, the release goes on
WriteFailureStops(writes) == FALSE

\* disconnect(), where the first `writes` best-effort writes succeed: gives
\* [conn, os, rec, calls]; calls is the sequence of Record writes and
\* transport calls made
Disconnect(c, o, r, writes, unmapOk, closeOk) ==
    IF ~c.is_connected
    THEN [conn |-> c, os |-> o, rec |-> r, calls |-> <<>>]
    ELSE LET w == IF c.interface THEN DisconnectWrites(r, writes)
                  ELSE [rec |-> r, calls |-> <<>>]
             cl == ReleaseHandles(c, o, unmapOk, closeOk)
         IN  IF WriteFailureStops(writes)
             THEN [conn |-> c, os |-> o, rec |-> w.rec, calls |-> w.calls]
             ELSE [conn |-> [cl.conn EXCEPT !.interface = FALSE,
                                            !.is_connected = FALSE,
                                            !.shared_memory_name = "None"],
                   os |-> cl.os,
                   rec |-> w.rec,
                   calls |-> w.calls \o cl.calls]

(***************************************************************************)
(* Initial state: the host has allocated the Record (zero-filled) and set  *)
(* its two input fields; the engine has been constructed.                  *)
(***************************************************************************)
InitRecord(running, duty) ==
    [test_running |-> running, duty_cycle |-> duty,
     interface_version |-> 0, window_title |-> "", cycle |-> 0,
     status_code |-> PLUGIN_NOSTATUS, status |-> "",
     error_count |-> 0, error_message |-> NoMessage,
     error_severity |-> SEVERITY_NONE,
     write_label |-> "", read_label |-> "", verify_label |-> "",
     user_enabled |-> [k \in 1..6 |-> FALSE],
     user_label |-> [k \in 1..6 |-> ""],
     user_value |-> [k \in 1..6 |-> ""],
     display_text_set |-> FALSE, new_error |-> FALSE, new_status |-> FALSE,
     new_user |-> [k \in 1..2 |-> FALSE], test_stopped |-> FALSE]

ErrorFields(r) ==
    [count |-> r.error_count, message |-> r.error_message,
     severity |-> r.error_severity, new |-> r.new_error]

NoAccCall ==
    [op |-> "none", field |-> "", id |-> 0, text |-> <<>>, value |-> <<>>,
     enabled |-> FALSE, severity |-> 0, long |-> <<>>, raised |-> "none",
     n |-> 0]

NoMetrics ==
    [write_ops |-> 0, read_ops |-> 0, verify_ops |-> 0, error_count |-> 0]

NoUpdate == [write_ops |-> <<>>, read_ops |-> <<>>, verify_ops |-> <<>>]

NoCntCall ==
    [op |-> "none", field |-> "", count |-> 0, args |-> NoMetrics,
     update |-> NoUpdate, raised |-> "none", n |-> 0]

NoSanCall ==
    [impl |-> "none", kind |-> "bytes", text_in |-> <<>>, max_len |-> 1,
     text_out |-> <<>>]

InitHist ==
    [on_start |-> 0, on_error |-> 0, on_test_end |-> 0, on_stop |-> 0,
     stop_calls |-> 0, stopped |-> FALSE, established |-> FALSE,
     on_stop_at |-> "none", rejected |-> 0, reject_exc |-> "none",
     pauses |-> 0, connect |-> "none",
     api |-> [op |-> "none", name |-> "", raised |-> FALSE, outcome |-> "none",
              calls |-> <<>>, tick |-> FALSE],
     acc |-> NoAccCall,
     cnt |-> NoCntCall,
     san |-> NoSanCall,
     log |-> <<>>, okset |-> {}, fail |-> "none", fail_kind |-> "none",
     aborted |-> "none", exit |-> "none", result |-> "none",
     snap |-> [err |-> ErrorFields(InitRecord(0, 0)), on_error |-> 0]]

Init ==
    /\ pc = "idle"
    /\ is_running = FALSE
    /\ current_cycle = 0
    /\ current_phase = "none"
    /\ phase_idx = 0
    /\ eng_connection = FALSE
    /\ eng_interface = FALSE
    /\ conn = NewConnection
    /\ os = [mapped |-> FALSE, handle |-> FALSE, n_views |-> 0, n_handles |-> 0]
    /\ \E running \in {0, 1}, duty \in DutyValues : rec = InitRecord(running, duty)
    /\ exc = "none"
    /\ exc_len = 0
    /\ sleep_time = 0
    /\ \E name \in PluginNames, ov \in BOOLEAN, te \in BOOLEAN :
          /\ te => ov
          /\ plugin = [name |-> name, overrides |-> ov, has_on_test_end |-> te]
    /\ hist = InitHist

(***************************************************************************)
(* BurnInPlugin.run(): connection and start-up.                            *)
(***************************************************************************)
\* run(), lines 80-90: the guard, the new PluginConnection, connect()
Run ==
    /\ pc = "idle"
    /\ ~is_running
    /\ \E name \in ShmNames, t \in Transports :
          LET res == Connect(NewConnection, os, rec, name, t)
          IN  /\ eng_connection' = TRUE
              /\ conn' = res.conn
              /\ os' = res.os
              /\ rec' = res.rec
              /\ pc' = IF res.raised THEN "run_except" ELSE "meta"
              /\ exc' = IF res.raised THEN "ConnectionError" ELSE "none"
              /\ hist' = [hist EXCEPT !.established = ~res.raised,
                                      !.connect = res.outcome]
    /\ UNCHANGED <<is_running, current_cycle, current_phase, phase_idx,
                   eng_interface, exc_len, sleep_time, plugin>>

\* a guard placed inside the try block: the rejected call reaches run()'s
\* handler and its finally clause, which cleans up the active run
RunRejectedInTry ==
    /\ is_running
    /\ hist.rejected < MaxRejected
    /\ hist' = [hist EXCEPT !.rejected = @ + 1, !.reject_exc = "PluginError",
                            !.on_error = @ + 1, !.on_stop = @ + 1]
    /\ is_running' = FALSE
    /\ rec' = [rec EXCEPT !.status_code = PLUGIN_CLEANUP, !.test_stopped = TRUE]
    /\ UNCHANGED <<pc, current_cycle, current_phase, phase_idx, eng_connection,
                   eng_interface, conn, os, exc, exc_len, sleep_time, plugin>>

\* run(), lines 80-81, called while the engine is running (from a callback
\* or another thread): PluginError is raised before the try block is entered
RunRejected ==
    /\ is_running
    /\ hist.rejected < MaxRejected
    /\ hist' = [hist EXCEPT !.rejected = @ + 1, !.reject_exc = "PluginError"]
    /\ UNCHANGED <<pc, is_running, current_cycle, current_phase, phase_idx,
                   eng_connection, eng_interface, conn, os, rec, exc, exc_len,
                   sleep_time, plugin>>

\* run(), lines 92-100: get_interface(), window title, version, running flag
SetMetadata ==
    /\ pc = "meta"
    /\ eng_interface' = TRUE
    /\ IF ValidLabel(plugin.name)
       THEN /\ rec' = [rec EXCEPT !.window_title = plugin.name,
                                  !.interface_version = INTERFACE_VERSION]
            /\ is_running' = TRUE
            /\ pc' = "on_start"
            /\ exc' = "none"
       ELSE /\ pc' = "run_except"
            /\ exc' = "ValidationError"
            /\ UNCHANGED <<rec, is_running>>
    /\ UNCHANGED <<current_cycle, current_phase, phase_idx, eng_connection,
                   conn, os, exc_len, sleep_time, plugin, hist>>

\* what a hook call can do: the hooks of the engine (lines 294-324) only
\* log and return; a hook the concrete plugin overrides may also raise
HookRaises == IF plugin.overrides THEN BOOLEAN ELSE {FALSE}

\* run(), line 103: on_start()
CallOnStart ==
    /\ pc = "on_start"
    /\ hist' = [hist EXCEPT !.on_start = @ + 1]
    /\ \E raises \in HookRaises :
          /\ pc' = IF raises THEN "run_except" ELSE "loop"
          /\ exc' = IF raises THEN "HookError" ELSE "none"
    /\ UNCHANGED <<is_running, current_cycle, current_phase, phase_idx,
                   eng_connection, eng_interface, conn, os, rec, exc_len,
                   sleep_time, plugin>>

(***************************************************************************)
(* _run_plugin_loop and _execute_test_phases.                              *)
(***************************************************************************)
\* a loop condition that forgets the local running flag
LoopCondNoFlag == rec.test_running # 0

\* the while condition of line 131
LoopCond == is_running /\ rec.test_running # 0

\* a phase boundary without the re-check
PhaseGuardMissing == TRUE

\* the re-check before each phase, line 169
PhaseGuard == is_running /\ rec.test_running # 0

\* a loop that does not break on a failed cycle
AfterPhasesNoBreak(ok) == "cycle_end"

\* lines 139-143: break on a failed cycle, on_cycle_end otherwise
AfterPhases(ok) == IF ok THEN "cycle_end" ELSE "test_end"

ExitReason == IF ~is_running THEN "local" ELSE "host"

\* lines 131-136: the condition holds, the cycle number is read and
\* on_cycle_start(cycle) is called
LoopEnter ==
    /\ pc = "loop"
    /\ LoopCond
    /\ current_cycle' = rec.cycle
    /\ hist' = [hist EXCEPT !.log = <<"on_cycle_start">>, !.okset = {},
                            !.pauses = 0,
                            !.snap = [err |-> ErrorFields(rec),
                                      on_error |-> hist.on_error]]
    /\ \E raises \in HookRaises :
          IF raises
          THEN /\ pc' = "loop_except"
               /\ exc' = "HookError"
               /\ UNCHANGED phase_idx
          ELSE /\ pc' = "phase"
               /\ phase_idx' = 1
               /\ UNCHANGED exc
    /\ UNCHANGED <<is_running, current_phase, eng_connection, eng_interface,
                   conn, os, rec, exc_len, sleep_time, plugin>>

\* line 131: the condition fails, the loop ends
LoopExit ==
    /\ pc = "loop"
    /\ ~LoopCond
    /\ pc' = "test_end"
    /\ hist' = [hist EXCEPT !.exit = ExitReason]
    /\ UNCHANGED <<is_running, current_cycle, current_phase, phase_idx,
                   eng_connection, eng_interface, conn, os, rec, exc, exc_len,
                   sleep_time, plugin>>

\* lines 169-176: the re-check passes and the phase callback is invoked
PhaseBegin ==
    /\ pc = "phase"
    /\ PhaseGuard
    /\ current_phase' = Phases[phase_idx]
    /\ pc' = "in_phase"
    /\ hist' = [hist EXCEPT !.log = Append(@, Phases[phase_idx])]
    /\ UNCHANGED <<is_running, current_cycle, phase_idx, eng_connection,
                   eng_interface, conn, os, rec, exc, exc_len, sleep_time,
                   plugin>>

\* lines 169-170 and 139-140: the re-check fails, _execute_test_phases
\* returns False and the loop breaks
PhaseAbort ==
    /\ pc = "phase"
    /\ ~PhaseGuard
    /\ pc' = AfterPhases(FALSE)
    /\ hist' = [hist EXCEPT !.aborted = Phases[phase_idx], !.exit = ExitReason]
    /\ UNCHANGED <<is_running, current_cycle, current_phase, phase_idx,
                   eng_connection, eng_interface, conn, os, rec, exc, exc_len,
                   sleep_time, plugin>>

\* lines 176-187, 197: the phase callback returns True
PhaseSuccess ==
    /\ pc = "in_phase"
    /\ hist' = [hist EXCEPT !.okset = @ \cup {current_phase}]
    /\ IF phase_idx < Len(Phases)
       THEN /\ phase_idx' = phase_idx + 1
            /\ pc' = "phase"
       ELSE /\ pc' = AfterPhases(TRUE)
            /\ UNCHANGED phase_idx
    /\ UNCHANGED <<is_running, current_cycle, current_phase, eng_connection,
                   eng_interface, conn, os, rec, exc, exc_len, sleep_time,
                   plugin>>

\* lines 178-183: the phase callback returns False, set_error is called
PhaseFalse ==
    /\ pc = "in_phase"
    /\ rec' = SetError(rec, FailedMessage(current_phase), SEVERITY_CRITICAL).rec
    /\ pc' = "err_hook"
    /\ hist' = [hist EXCEPT !.fail = current_phase, !.fail_kind = "false"]
    /\ UNCHANGED <<is_running, current_cycle, current_phase, phase_idx,
                   eng_connection, eng_interface, conn, os, exc, exc_len,
                   sleep_time, plugin>>

\* line 176: the phase callback raises an exception whose text has length n
PhaseRaise ==
    /\ pc = "in_phase"
    /\ \E n \in ExcLens : exc_len' = n
    /\ pc' = "phase_exc"
    /\ hist' = [hist EXCEPT !.fail = current_phase, !.fail_kind = "raised"]
    /\ UNCHANGED <<is_running, current_cycle, current_phase, phase_idx,
                   eng_connection, eng_interface, conn, os, rec, exc,
                   sleep_time, plugin>>

\* lines 184-185: on_error() after a phase returned False; an exception it
\* raises is inside the try block and reaches the handler of line 189
ErrHook ==
    /\ pc = "err_hook"
    /\ hist' = [hist EXCEPT !.on_error = @ + 1,
                            !.exit = "phase_failed"]
    /\ \/ /\ pc' = AfterPhases(FALSE)
          /\ UNCHANGED exc_len
       \/ /\ TRUE \in HookRaises
          /\ \E n \in ExcLens : exc_len' = n
          /\ pc' = "phase_exc"
    /\ UNCHANGED <<is_running, current_cycle, current_phase, phase_idx,
                   eng_connection, eng_interface, conn, os, rec, exc,
                   sleep_time, plugin>>

\* lines 189-194: the handler records the exception with set_error; a
\* ValidationError of set_error leaves the handler and _execute_test_phases
PhaseException ==
    /\ pc = "phase_exc"
    /\ LET res == SetError(rec, ExceptionMessage(current_phase, exc_len),
                           SEVERITY_CRITICAL)
       IN  /\ rec' = res.rec
           /\ pc' = IF res.ok THEN "exc_hook" ELSE "loop_except"
           /\ exc' = IF res.ok THEN exc ELSE "ValidationError"
    /\ exc_len' = 0
    /\ UNCHANGED <<is_running, current_cycle, current_phase, phase_idx,
                   eng_connection, eng_interface, conn, os, sleep_time,
                   plugin, hist>>

\* lines 195-196: on_error() in the handler, then return False
ExcHook ==
    /\ pc = "exc_hook"
    /\ hist' = [hist EXCEPT !.on_error = @ + 1, !.exit = "phase_failed"]
    /\ \E raises \in HookRaises :
          /\ pc' = IF raises THEN "loop_except" ELSE AfterPhases(FALSE)
          /\ exc' = IF raises THEN "HookError" ELSE exc
    /\ UNCHANGED <<is_running, current_cycle, current_phase, phase_idx,
                   eng_connection, eng_interface, conn, os, rec, exc_len,
                   sleep_time, plugin>>

\* line 143: on_cycle_end(cycle)
CallOnCycleEnd ==
    /\ pc = "cycle_end"
    /\ hist' = [hist EXCEPT !.log = Append(@, "on_cycle_end")]
    /\ \E raises \in HookRaises :
          /\ pc' = IF raises THEN "loop_except" ELSE "duty"
          /\ exc' = IF raises THEN "HookError" ELSE exc
    /\ UNCHANGED <<is_running, current_cycle, current_phase, phase_idx,
                   eng_connection, eng_interface, conn, os, rec, exc_len,
                   sleep_time, plugin>>

\* a pause proportional to the duty cycle instead of its complement
SleepTimeWrong(duty_cycle) == duty_cycle * DelayUnit

\* lines 205-207: the pause for a duty cycle, 0 for none
SleepTime(duty_cycle) ==
    IF duty_cycle < 100 THEN (100 - duty_cycle) * DelayUnit ELSE 0

\* _handle_duty_cycle, lines 199-210: time.sleep is called when the pause
\* is positive
HandleDutyCycle ==
    /\ pc = "duty"
    /\ LET t == IF eng_interface THEN SleepTime(rec.duty_cycle) ELSE 0
       IN  /\ sleep_time' = t
           /\ hist' = [hist EXCEPT !.pauses = IF t > 0 THEN @ + 1 ELSE @]
    /\ pc' = "loop"
    /\ UNCHANGED <<is_running, current_cycle, current_phase, phase_idx,
                   eng_connection, eng_interface, conn, os, rec, exc, exc_len,
                   plugin>>

\* line 149: on_test_end(); the engine defines no such method, so the call
\* raises AttributeError unless the concrete plugin defines it
CallOnTestEnd ==
    /\ pc = "test_end"
    /\ IF ~plugin.has_on_test_end
       THEN /\ pc' = "loop_except"
            /\ exc' = "AttributeError"
            /\ UNCHANGED hist
       ELSE /\ hist' = [hist EXCEPT !.on_test_end = @ + 1]
            /\ \E raises \in HookRaises :
                  /\ pc' = IF raises THEN "loop_except" ELSE "cleanup"
                  /\ exc' = IF raises THEN "HookError" ELSE exc
    /\ UNCHANGED <<is_running, current_cycle, current_phase, phase_idx,
                   eng_connection, eng_interface, conn, os, rec, exc_len,
                   sleep_time, plugin>>

\* lines 151-154: the loop's handler calls on_error() and re-raises; an
\* exception of on_error() propagates in its place
LoopExcept ==
    /\ pc = "loop_except"
    /\ hist' = [hist EXCEPT !.on_error = @ + 1,
                            !.exit = IF @ = "none" THEN "exception" ELSE @]
    /\ \E raises \in HookRaises : exc' = IF raises THEN "HookError" ELSE exc
    /\ pc' = "run_except"
    /\ UNCHANGED <<is_running, current_cycle, current_phase, phase_idx,
                   eng_connection, eng_interface, conn, os, rec, exc_len,
                   sleep_time, plugin>>

\* lines 108-111: run()'s handler calls on_error() and re-raises
RunExcept ==
    /\ pc = "run_except"
    /\ hist' = [hist EXCEPT !.on_error = @ + 1]
    /\ \E raises \in HookRaises : exc' = IF raises THEN "HookError" ELSE exc
    /\ pc' = "cleanup"
    /\ UNCHANGED <<is_running, current_cycle, current_phase, phase_idx,
                   eng_connection, eng_interface, conn, os, rec, exc_len,
                   sleep_time, plugin>>

(***************************************************************************)
(* stop() and _cleanup().                                                  *)
(***************************************************************************)
\* stop(), lines 115-124, called from outside run(): a no-op unless the
\* engine is running; otherwise the flag is cleared and on_stop() is called
\* (an exception of on_stop() goes to the caller of stop())
Stop ==
    /\ hist.stop_calls < MaxStopCalls
    /\ IF is_running
       THEN /\ is_running' = FALSE
            /\ hist' = [hist EXCEPT !.stop_calls = @ + 1, !.on_stop = @ + 1,
                                    !.stopped = TRUE, !.on_stop_at = pc]
       ELSE /\ hist' = [hist EXCEPT !.stop_calls = @ + 1]
            /\ UNCHANGED is_running
    /\ UNCHANGED <<pc, current_cycle, current_phase, phase_idx, eng_connection,
                   eng_interface, conn, os, rec, exc, exc_len, sleep_time,
                   plugin>>

\* _cleanup(), lines 240-242: status code and test_stopped
CleanupMark ==
    /\ pc = "cleanup"
    /\ rec' = IF eng_interface
              THEN [rec EXCEPT !.status_code = PLUGIN_CLEANUP,
                               !.test_stopped = TRUE]
              ELSE rec
    /\ pc' = "cleanup_stop"
    /\ UNCHANGED <<is_running, current_cycle, current_phase, phase_idx,
                   eng_connection, eng_interface, conn, os, exc, exc_len,
                   sleep_time, plugin, hist>>

\* the outcome of run(): the pending exception is re-raised after _cleanup
RunResult == IF exc = "none" THEN "returned" ELSE "raised"

\* a stop() in _cleanup that clears the flag only after on_stop() returned
CleanupStopHookFirst ==
    /\ pc = "cleanup_stop"
    /\ IF is_running
       THEN \E raises \in HookRaises :
               /\ is_running' = raises
               /\ pc' = IF raises THEN "done" ELSE "cleanup_disc"
               /\ hist' = [hist EXCEPT !.on_stop = @ + 1,
                                       !.on_stop_at = "cleanup_stop",
                                       !.result = IF raises THEN RunResult
                                                  ELSE @]
       ELSE /\ pc' = "cleanup_disc"
            /\ UNCHANGED <<is_running, hist>>
    /\ UNCHANGED <<current_cycle, current_phase, phase_idx, eng_connection,
                   eng_interface, conn, os, rec, exc, exc_len, sleep_time,
                   plugin>>

\* _cleanup(), line 245: self.stop(); an exception of on_stop() is caught
\* by the handler of line 254, which skips the rest of the try block
CleanupStop ==
    /\ pc = "cleanup_stop"
    /\ IF is_running
       THEN /\ is_running' = FALSE
            /\ \E raises \in HookRaises :
                  /\ pc' = IF raises THEN "done" ELSE "cleanup_disc"
                  /\ hist' = [hist EXCEPT !.on_stop = @ + 1,
                                          !.on_stop_at = "cleanup_stop",
                                          !.result = IF raises THEN RunResult
                                                     ELSE @]
       ELSE /\ pc' = "cleanup_disc"
            /\ UNCHANGED <<is_running, hist>>
    /\ UNCHANGED <<current_cycle, current_phase, phase_idx, eng_connection,
                   eng_interface, conn, os, rec, exc, exc_len, sleep_time,
                   plugin>>

\* _cleanup(), lines 248-252: disconnect, drop the connection and the
\* accessor; run() then returns or re-raises
CleanupDisconnect ==
    /\ pc = "cleanup_disc"
    /\ \E writes \in 0..NumDisconnectWrites, unmapOk \in BOOLEAN,
          closeOk \in BOOLEAN :
          LET res == IF eng_connection
                     THEN Disconnect(conn, os, rec, writes, unmapOk, closeOk)
                     ELSE [conn |-> conn, os |-> os, rec |-> rec]
          IN  /\ conn' = res.conn
              /\ os' = res.os
              /\ rec' = res.rec
    /\ eng_connection' = FALSE
    /\ eng_interface' = FALSE
    /\ pc' = "done"
    /\ hist' = [hist EXCEPT !.result = RunResult]
    /\ UNCHANGED <<is_running, current_cycle, current_phase, phase_idx, exc,
                   exc_len, sleep_time, plugin>>

(***************************************************************************)
(* The host: it writes the two input fields whenever it likes.             *)
(***************************************************************************)
HostSetTestRunning ==
    /\ \E v \in {0, 1} : rec' = [rec EXCEPT !.test_running = v]
    /\ UNCHANGED <<pc, is_running, current_cycle, current_phase, phase_idx,
                   eng_connection, eng_interface, conn, os, exc, exc_len,
                   sleep_time, plugin, hist>>

HostSetDutyCycle ==
    /\ \E d \in DutyValues : rec' = [rec EXCEPT !.duty_cycle = d]
    /\ UNCHANGED <<pc, is_running, current_cycle, current_phase, phase_idx,
                   eng_connection, eng_interface, conn, os, exc, exc_len,
                   sleep_time, plugin, hist>>

Next ==
    \/ Run
    \/ RunRejected
    \/ SetMetadata
    \/ CallOnStart
    \/ LoopEnter
    \/ LoopExit
    \/ PhaseBegin
    \/ PhaseAbort
    \/ PhaseSuccess
    \/ PhaseFalse
    \/ PhaseRaise
    \/ ErrHook
    \/ PhaseException
    \/ ExcHook
    \/ CallOnCycleEnd
    \/ HandleDutyCycle
    \/ CallOnTestEnd
    \/ LoopExcept
    \/ RunExcept
    \/ Stop
    \/ CleanupMark
    \/ CleanupStop
    \/ CleanupDisconnect
    \/ HostSetTestRunning
    \/ HostSetDutyCycle

Spec == Init /\ [][Next]_vars

(***************************************************************************)
(* A PluginConnection used directly, as main.py does: the client calls     *)
(* connect, get_interface and disconnect in any order and writes through   *)
(* the accessor while connected; the engine is not running.                *)
(***************************************************************************)
EngineVars == <<pc, is_running, current_cycle, current_phase, phase_idx,
                eng_connection, eng_interface, exc, exc_len, sleep_time,
                plugin>>

\* the call just made on the connection, for observation
ApiCall(op, name, raised, outcome, calls) ==
    [op |-> op, name |-> name, raised |-> raised, outcome |-> outcome,
     calls |-> calls, tick |-> ~hist.api.tick]

\* connection.connect(name)
ApiConnect ==
    /\ \E name \in ShmNames, t \in Transports :
          LET res == Connect(conn, os, rec, name, t)
          IN  /\ conn' = res.conn
              /\ os' = res.os
              /\ rec' = res.rec
              /\ hist' = [hist EXCEPT !.api = ApiCall("connect", name,
                                 res.raised, res.outcome, res.calls)]
    /\ UNCHANGED EngineVars

\* connection.disconnect()
ApiDisconnect ==
    /\ \E writes \in 0..NumDisconnectWrites, unmapOk \in BOOLEAN,
          closeOk \in BOOLEAN :
          LET res == Disconnect(conn, os, rec, writes, unmapOk, closeOk)
          IN  /\ conn' = res.conn
              /\ os' = res.os
              /\ rec' = res.rec
              /\ hist' = [hist EXCEPT !.api = ApiCall("disconnect", "", FALSE,
                                 "none", res.calls)]
    /\ UNCHANGED EngineVars

\* connection.get_interface(): ConnectionError unless connected
ApiGetInterface ==
    /\ hist' = [hist EXCEPT !.api = ApiCall("get_interface", "",
                       ~conn.is_connected \/ ~conn.interface, "none", <<>>)]
    /\ UNCHANGED <<conn, os, rec>>
    /\ UNCHANGED EngineVars

\* the client writes status code and status through the accessor it got
ApiWrite ==
    /\ conn.is_connected
    /\ conn.interface
    /\ rec' = SetStatus([rec EXCEPT !.status_code = PLUGIN_WRITING],
                        "Plug-in write").rec
    /\ UNCHANGED <<conn, os, hist>>
    /\ UNCHANGED EngineVars

NextConn ==
    \/ ApiConnect
    \/ ApiDisconnect
    \/ ApiGetInterface
    \/ ApiWrite
    \/ HostSetTestRunning
    \/ HostSetDutyCycle

\* no engine is constructed: the plugin object plays no part
InitConn ==
    /\ Init
    /\ plugin = [name |-> "Demo plugin", overrides |-> FALSE,
                 has_on_test_end |-> FALSE]

SpecConn == InitConn /\ [][NextConn]_vars

(***************************************************************************)
(* The accessor (PluginInterface) at the level of bytes.  A text is the    *)
(* sequence of its code points; a text field of the Record is a character  *)
(* array of its declared width.  The client calls the accessor's           *)
(* operations in any order on a Record that connect() has initialised.     *)
(***************************************************************************)
TextFields == {"window_title", "status", "error_message", "write_label",
               "read_label", "verify_label", "error_long"}

\* the widths of the character arrays, PluginInterfaceStructure lines 20-59
Width(f) ==
    CASE f = "error_message" -> PLUGIN_MAXERRORTEXT
      [] f = "error_long" -> PLUGIN_MAXERRORTEXTLONG
      [] OTHER -> PLUGIN_MAXDISPLAYTEXT

Fill(ch, n) == [i \in 1..n |-> ch]

\* str.encode(): UTF-8, one byte below U+0080 and two below U+0800
Encode(text) ==
    LET Wide(k) == text[k] >= 128
        Off(i) == (i - 1) + Cardinality({k \in 1..(i - 1) : Wide(k)})
        Size(i) == IF Wide(i) THEN 2 ELSE 1
        CharAt(j) == CHOOSE i \in 1..Len(text) :
                         Off(i) < j /\ j <= Off(i) + Size(i)
    IN  IF \A k \in 1..Len(text) : ~Wide(k) THEN text
        ELSE [j \in 1..(Off(Len(text)) + Size(Len(text))) |->
                LET i == CharAt(j)
                IN  IF ~Wide(i) THEN text[i]
                    ELSE IF j = Off(i) + 1 THEN 192 + (text[i] \div 64)
                    ELSE 128 + (text[i] % 64)]

\* the length of a byte string as C sees it: up to the first zero byte
StrLen(data) ==
    LET zeros == {i \in 1..Len(data) : data[i] = 0}
    IN  IF zeros = {} THEN Len(data)
        ELSE (CHOOSE i \in zeros : \A j \in zeros : i <= j) - 1

\* assignment of bytes to a character-array field of the structure: the
\* payload and, if there is room, one terminator are copied; bytes after
\* that are left as they were; a payload longer than the array is refused
\* (ValueError).  Gives [ok, field].
CharArraySet(field, data) ==
    LET n == StrLen(data)
    IN  IF n > Len(field)
        THEN [ok |-> FALSE, field |-> field]
        ELSE [ok |-> TRUE,
              field |-> [i \in 1..Len(field) |->
                           IF i <= n THEN data[i]
                           ELSE IF i = n + 1 THEN 0 ELSE field[i]]]

\* reading a character-array field: the bytes before the first zero
CharArrayGet(field) == SubSeq(field, 1, StrLen(field))

\* bytes.decode('utf-8', errors='ignore') of what Encode produces; a byte
\* that does not begin or continue a two-byte sequence is dropped
RECURSIVE DecodeWide(_)
DecodeWide(data) ==
    IF data = <<>> THEN <<>>
    ELSE IF Head(data) < 128 THEN <<Head(data)>> \o DecodeWide(Tail(data))
    ELSE IF /\ Head(data) >= 192 /\ Head(data) < 224 /\ Len(data) >= 2
            /\ data[2] >= 128 /\ data[2] < 192
    THEN <<(Head(data) - 192) * 64 + (data[2] - 128)>>
             \o DecodeWide(Tail(Tail(data)))
    ELSE DecodeWide(Tail(data))

Decode(data) ==
    IF \A k \in 1..Len(data) : data[k] < 128 THEN data ELSE DecodeWide(data)

\* the text getters: field.decode('utf-8', errors='ignore').rstrip('\x00')
GetText(r, f) == Decode(CharArrayGet(r[f]))

\* a length check that lets a text of exactly the width through
TooLongOffByOne(text, width) == Len(text) > width

\* the length checks of the setters: len(text) >= width
TooLong(text, width) == Len(text) >= width

\* the notification flag a text setter raises, if any
FlagOf(f) ==
    CASE f = "status" -> "new_status"
      [] f = "error_message" -> "new_error"
      [] OTHER -> "none"

\* the single-field text setters (status, error_message, error_long,
\* window_title, write/read/verify label): gives [raised, rec]
SetText(r, f, text) ==
    IF TooLong(text, Width(f))
    THEN [raised |-> "ValidationError", rec |-> r]
    ELSE LET w == CharArraySet(r[f], Encode(text))
         IN  IF ~w.ok
             THEN [raised |-> "ValueError", rec |-> r]
             ELSE [raised |-> "none",
                   rec |-> IF FlagOf(f) = "none"
                           THEN [r EXCEPT ![f] = w.field]
                           ELSE [r EXCEPT ![f] = w.field, ![FlagOf(f)] = TRUE]]

\* a new-value flag for the first slot only
HasNewValueFlagFirst(id) == id = 1

\* field_map of set_user_field: slots 1 and 2 have a new-value flag
HasNewValueFlag(id) == id \in 1..2

\* set_user_field(field_id, label, value, enabled): gives [raised, rec]
SetUserFieldBytes(r, id, label, value, enabled) ==
    IF id \notin 1..6
    THEN [raised |-> "ValidationError", rec |-> r]
    ELSE LET l == CharArraySet(r.user_label[id], Encode(label))
             r1 == [r EXCEPT !.user_label[id] = l.field]
             v == CharArraySet(r.user_value[id], Encode(value))
             r2 == [r1 EXCEPT !.user_value[id] = v.field,
                              !.user_enabled[id] = enabled]
         IN  IF ~l.ok THEN [raised |-> "ValueError", rec |-> r]
             ELSE IF ~v.ok THEN [raised |-> "ValueError", rec |-> r1]
             ELSE [raised |-> "none",
                   rec |-> IF HasNewValueFlag(id)
                           THEN [r2 EXCEPT !.new_user[id] = TRUE]
                           ELSE r2]

\* get_user_field(field_id): gives [raised, label, value, enabled]
GetUserField(r, id) ==
    IF id \notin 1..6
    THEN [raised |-> "ValidationError", label |-> <<>>, value |-> <<>>,
          enabled |-> FALSE]
    ELSE [raised |-> "none", label |-> Decode(CharArrayGet(r.user_label[id])),
          value |-> Decode(CharArrayGet(r.user_value[id])),
          enabled |-> r.user_enabled[id]]

(***************************************************************************)
(* The counters.  OUT_iCycle is a c_uint, OUT_iErrorCount a c_int and the  *)
(* three operation counters are c_int64: a store keeps the low bits of the *)
(* value.  The widths are scaled down, WordBits for 32 and WideBits for    *)
(* 64; the arithmetic is the same at every width.                          *)
(***************************************************************************)
RECURSIVE Pow2(_)
Pow2(n) == IF n = 0 THEN 1 ELSE 2 * Pow2(n - 1)

WrapUnsigned(v, bits) == v % Pow2(bits)

WrapSigned(v, bits) == ((v + Pow2(bits - 1)) % Pow2(bits)) - Pow2(bits - 1)

OperationCounters == {"write_operations", "read_operations",
                      "verify_operations"}

CounterFields == {"cycle", "error_count"} \cup OperationCounters

\* assignment of a Python int to an integer field of the structure
Store(f, v) ==
    CASE f = "cycle" -> WrapUnsigned(v, WordBits)
      [] f = "error_count" -> WrapSigned(v, WordBits)
      [] OTHER -> WrapSigned(v, WideBits)

\* the largest value a counter field holds
MaxOf(f) ==
    CASE f = "cycle" -> Pow2(WordBits) - 1
      [] f = "error_count" -> Pow2(WordBits - 1) - 1
      [] OTHER -> Pow2(WideBits - 1) - 1

\* the counter setters (cycle, error_count, write/read/verify_operations)
SetCounter(r, f, count) ==
    IF count < 0
    THEN [raised |-> "ValidationError", rec |-> r]
    ELSE [raised |-> "none", rec |-> [r EXCEPT ![f] = Store(f, count)]]

\* increment_cycle(): OUT_iCycle += 1, with no check
IncrementCycle(r) == [r EXCEPT !.cycle = Store("cycle", @ + 1)]

\* update_metrics(write_ops, read_ops, verify_ops); an argument is <<>>
\* for None and <<count>> for a count
UpdateMetrics(r, a) ==
    LET Upd(x, f, v) == IF v = <<>> THEN [raised |-> "none", rec |-> x]
                        ELSE SetCounter(x, f, v[1])
        r1 == Upd(r, "write_operations", a.write_ops)
        r2 == IF r1.raised # "none" THEN r1
              ELSE Upd(r1.rec, "read_operations", a.read_ops)
    IN  IF r2.raised # "none" THEN r2
        ELSE Upd(r2.rec, "verify_operations", a.verify_ops)

\* `if delta > 0: self.<counter> += delta`
AddIfPositive(r, f, delta) ==
    IF delta > 0 THEN SetCounter(r, f, r[f] + delta)
    ELSE [raised |-> "none", rec |-> r]

\* increment_metrics(write_ops, read_ops, verify_ops, error_count)
IncrementMetrics(r, a) ==
    LET r1 == AddIfPositive(r, "write_operations", a.write_ops)
        r2 == IF r1.raised # "none" THEN r1
              ELSE AddIfPositive(r1.rec, "read_operations", a.read_ops)
        r3 == IF r2.raised # "none" THEN r2
              ELSE AddIfPositive(r2.rec, "verify_operations", a.verify_ops)
    IN  IF r3.raised # "none" THEN r3
        ELSE AddIfPositive(r3.rec, "error_count", a.error_count)

\* the values of ErrorSeverity
Severities == SEVERITY_NONE..SEVERITY_TERMINAL

\* set_error(message, severity, long_message): the message, then the
\* severity, then the count, then the long message if one is given
SetErrorBytes(r, message, severity, long) ==
    LET m == SetText(r, "error_message", message)
        s == [m.rec EXCEPT !.error_severity = severity]
        c == SetCounter(s, "error_count", s.error_count + 1)
    IN  IF m.raised # "none" THEN m
        ELSE IF severity \notin Severities
        THEN [raised |-> "ValidationError", rec |-> m.rec]
        ELSE IF c.raised # "none" THEN c
        ELSE IF long = <<>> THEN c
        ELSE SetText(c.rec, "error_long", long)

\* a reset that also clears display_text_set
ResetFlagsAll(r) ==
    [r EXCEPT !.new_error = FALSE, !.new_status = FALSE,
              !.new_user = [k \in 1..2 |-> FALSE], !.display_text_set = FALSE]

\* reset_flags()
ResetFlags(r) ==
    [r EXCEPT !.new_error = FALSE, !.new_status = FALSE,
              !.new_user = [k \in 1..2 |-> FALSE]]

\* the Record's text fields and flags, zero-filled
ZeroBytes ==
    [window_title |-> Fill(0, PLUGIN_MAXDISPLAYTEXT),
     status |-> Fill(0, PLUGIN_MAXDISPLAYTEXT),
     error_message |-> Fill(0, PLUGIN_MAXERRORTEXT),
     error_long |-> Fill(0, PLUGIN_MAXERRORTEXTLONG),
     write_label |-> Fill(0, PLUGIN_MAXDISPLAYTEXT),
     read_label |-> Fill(0, PLUGIN_MAXDISPLAYTEXT),
     verify_label |-> Fill(0, PLUGIN_MAXDISPLAYTEXT),
     user_label |-> [k \in 1..6 |-> Fill(0, PLUGIN_MAXDISPLAYTEXT)],
     user_value |-> [k \in 1..6 |-> Fill(0, PLUGIN_MAXDISPLAYTEXT)],
     user_enabled |-> [k \in 1..6 |-> FALSE],
     error_count |-> 0, error_severity |-> SEVERITY_NONE,
     cycle |-> 0, write_operations |-> 0, read_operations |-> 0,
     verify_operations |-> 0, test_running |-> 0, duty_cycle |-> 0,
     display_text_set |-> FALSE, new_error |-> FALSE, new_status |-> FALSE,
     new_user |-> [k \in 1..2 |-> FALSE], test_stopped |-> FALSE]

\* the texts of _initialize_interface, as code points
TextWrite == <<87, 114, 105, 116, 101, 32, 40, 77, 66, 121, 116, 101, 115, 41, 58>>
TextRead == <<82, 101, 97, 100, 32, 40, 77, 66, 121, 116, 101, 115, 41, 58>>
TextVerify == <<86, 101, 114, 105, 102, 121, 32, 40, 77, 66, 121, 116, 101, 115, 41, 58>>
TextInitializing == <<73, 110, 105, 116, 105, 97, 108, 105, 122, 105, 110, 103>>
TextField1 == <<67, 117, 115, 116, 111, 109, 32, 70, 105, 101, 108, 100, 32, 49>>
TextField2 == <<67, 117, 115, 116, 111, 109, 32, 70, 105, 101, 108, 100, 32, 50>>
TextReady == <<82, 101, 97, 100, 121>>

\* the Record as _initialize_interface leaves it
DefaultBytes ==
    LET r1 == SetText(ZeroBytes, "write_label", TextWrite).rec
        r2 == SetText(r1, "read_label", TextRead).rec
        r3 == SetText(r2, "verify_label", TextVerify).rec
        r4 == SetText(r3, "status", TextInitializing).rec
        r5 == SetUserFieldBytes(r4, 1, TextField1, TextReady, TRUE).rec
        r6 == SetUserFieldBytes(r5, 2, TextField2, TextReady, TRUE).rec
    IN  [r6 EXCEPT !.display_text_set = TRUE]

\* the texts the client passes
TextA == <<65>>
TextSpecial == <<66, 37, 7, 92>>

TextInputs(f) ==
    {TextSpecial, Fill(67, Width(f) - 1), Fill(67, Width(f))}
        \cup (IF Width(f) = PLUGIN_MAXDISPLAYTEXT
              THEN {Fill(233, PLUGIN_MAXDISPLAYTEXT \div 2)} ELSE {})

UserIds == 0..7

UserArgs ==
    {[label |-> TextA, value |-> TextSpecial, enabled |-> TRUE],
     [label |-> TextA, value |-> TextSpecial, enabled |-> FALSE],
     [label |-> TextA, value |-> Fill(67, PLUGIN_MAXDISPLAYTEXT + 1),
      enabled |-> TRUE],
     [label |-> TextA, value |-> Fill(67, PLUGIN_MAXDISPLAYTEXT),
      enabled |-> TRUE],
     [label |-> Fill(67, PLUGIN_MAXDISPLAYTEXT + 1), value |-> TextA,
      enabled |-> TRUE],
     [label |-> Fill(67, PLUGIN_MAXDISPLAYTEXT - 1),
      value |-> Fill(68, PLUGIN_MAXDISPLAYTEXT - 1), enabled |-> TRUE]}

ErrorArgs ==
    {[message |-> TextA, severity |-> SEVERITY_CRITICAL, long |-> <<>>],
     [message |-> TextSpecial, severity |-> SEVERITY_TERMINAL + 1,
      long |-> <<>>],
     [message |-> Fill(67, PLUGIN_MAXERRORTEXT),
      severity |-> SEVERITY_CRITICAL, long |-> <<>>],
     [message |-> TextA, severity |-> SEVERITY_NONE, long |-> TextSpecial],
     [message |-> TextA, severity |-> SEVERITY_CRITICAL,
      long |-> Fill(67, PLUGIN_MAXERRORTEXTLONG)],
     [message |-> Fill(67, PLUGIN_MAXERRORTEXT - 1),
      severity |-> SEVERITY_TERMINAL,
      long |-> Fill(67, PLUGIN_MAXERRORTEXTLONG - 1)]}

\* the call just made on the accessor, for observation
AccCall(op, f, id, text, value, enabled, severity, long, raised) ==
    [op |-> op, field |-> f, id |-> id, text |-> text, value |-> value,
     enabled |-> enabled, severity |-> severity, long |-> long,
     raised |-> raised, n |-> hist.acc.n + 1]

NonRecordVars == <<pc, is_running, current_cycle, current_phase, phase_idx,
                   eng_connection, eng_interface, conn, os, exc, exc_len,
                   sleep_time, plugin>>

\* interface.<field> = text
CallSetText ==
    /\ hist.acc.n < MaxOps
    /\ \E f \in TextFields : \E text \in TextInputs(f) :
          LET res == SetText(rec, f, text)
          IN  /\ rec' = res.rec
              /\ hist' = [hist EXCEPT !.acc = AccCall("set_text", f, 0, text,
                                 <<>>, FALSE, 0, <<>>, res.raised)]
    /\ UNCHANGED NonRecordVars

\* interface.set_user_field(id, label, value, enabled)
CallSetUserField ==
    /\ hist.acc.n < MaxOps
    /\ \E id \in UserIds, a \in UserArgs :
          LET res == SetUserFieldBytes(rec, id, a.label, a.value, a.enabled)
          IN  /\ rec' = res.rec
              /\ hist' = [hist EXCEPT !.acc = AccCall("set_user_field", "", id,
                                 a.label, a.value, a.enabled, 0, <<>>,
                                 res.raised)]
    /\ UNCHANGED NonRecordVars

\* interface.get_user_field(id)
CallGetUserField ==
    /\ hist.acc.n < MaxOps
    /\ \E id \in UserIds :
          LET res == GetUserField(rec, id)
          IN  hist' = [hist EXCEPT !.acc = AccCall("get_user_field", "", id,
                             res.label, res.value, res.enabled, 0, <<>>,
                             res.raised)]
    /\ UNCHANGED rec
    /\ UNCHANGED NonRecordVars

\* interface.set_error(message, severity, long_message)
CallSetError ==
    /\ hist.acc.n < MaxOps
    /\ \E a \in ErrorArgs :
          LET res == SetErrorBytes(rec, a.message, a.severity, a.long)
          IN  /\ rec' = res.rec
              /\ hist' = [hist EXCEPT !.acc = AccCall("set_error", "", 0,
                                 a.message, <<>>, FALSE, a.severity, a.long,
                                 res.raised)]
    /\ UNCHANGED NonRecordVars

\* interface.reset_flags()
CallResetFlags ==
    /\ hist.acc.n < MaxOps
    /\ rec' = ResetFlags(rec)
    /\ hist' = [hist EXCEPT !.acc = AccCall("reset_flags", "", 0, <<>>, <<>>,
                       FALSE, 0, <<>>, "none")]
    /\ UNCHANGED NonRecordVars

\* interface.test_stopped = v, interface.display_text_set = v
CallSetFlag ==
    /\ hist.acc.n < MaxOps
    /\ \E f \in {"test_stopped", "display_text_set"}, v \in BOOLEAN :
          /\ rec' = [rec EXCEPT ![f] = v]
          /\ hist' = [hist EXCEPT !.acc = AccCall("set_flag", f, 0, <<>>,
                             <<>>, v, 0, <<>>, "none")]
    /\ UNCHANGED NonRecordVars

InitAcc ==
    /\ pc = "idle"
    /\ is_running = FALSE
    /\ current_cycle = 0
    /\ current_phase = "none"
    /\ phase_idx = 0
    /\ eng_connection = FALSE
    /\ eng_interface = FALSE
    /\ conn = [NewConnection EXCEPT !.is_connected = TRUE,
                                    !.file_mapping_handle = TRUE,
                                    !.mapped_address = TRUE,
                                    !.interface = TRUE,
                                    !.shared_memory_name = "BITest_1"]
    /\ os = [mapped |-> TRUE, handle |-> TRUE, n_views |-> 1, n_handles |-> 1]
    /\ rec = DefaultBytes
    /\ exc = "none"
    /\ exc_len = 0
    /\ sleep_time = 0
    /\ plugin = [name |-> "Demo plugin", overrides |-> FALSE,
                 has_on_test_end |-> FALSE]
    /\ hist = InitHist

NextAcc ==
    \/ CallSetText
    \/ CallSetUserField
    \/ CallGetUserField
    \/ CallSetError
    \/ CallResetFlags
    \/ CallSetFlag

SpecAcc == InitAcc /\ [][NextAcc]_vars

(***************************************************************************)
(* The counter operations of the accessor, called in any order on a        *)
(* connected Record.                                                       *)
(***************************************************************************)
CntCall(op, f, count, args, update, raised) ==
    [op |-> op, field |-> f, count |-> count, args |-> args,
     update |-> update, raised |-> raised, n |-> hist.cnt.n + 1]

\* the counts the client assigns to a counter
CountInputs(f) == {-1, 0, 1, MaxOf(f), MaxOf(f) + 1}

UpdateArgs ==
    {[write_ops |-> w, read_ops |-> r, verify_ops |-> v] :
        w \in {<<>>, <<2>>}, r \in {<<>>, <<-1>>}, v \in {<<>>, <<1>>}}

IncrementArgs ==
    {NoMetrics} \cup
    {[write_ops |-> w, read_ops |-> r, verify_ops |-> v, error_count |-> e] :
        w \in {-1, 1}, r \in {-1, 1}, v \in {-1, 1}, e \in {-1, 1}}

\* interface.<counter> = count
CallSetCounter ==
    /\ hist.cnt.n < MaxCounterOps
    /\ \E f \in CounterFields : \E count \in CountInputs(f) :
          LET res == SetCounter(rec, f, count)
          IN  /\ rec' = res.rec
              /\ hist' = [hist EXCEPT !.cnt = CntCall("set_counter", f, count,
                                                     NoMetrics, NoUpdate,
                                                     res.raised)]
    /\ UNCHANGED NonRecordVars

\* interface.increment_cycle()
CallIncrementCycle ==
    /\ hist.cnt.n < MaxCounterOps
    /\ rec' = IncrementCycle(rec)
    /\ hist' = [hist EXCEPT !.cnt = CntCall("increment_cycle", "cycle", 0,
                                           NoMetrics, NoUpdate, "none")]
    /\ UNCHANGED NonRecordVars

\* interface.update_metrics(write_ops, read_ops, verify_ops)
CallUpdateMetrics ==
    /\ hist.cnt.n < MaxCounterOps
    /\ \E a \in UpdateArgs :
          LET res == UpdateMetrics(rec, a)
          IN  /\ rec' = res.rec
              /\ hist' = [hist EXCEPT !.cnt = CntCall("update_metrics", "", 0,
                                                     NoMetrics, a, res.raised)]
    /\ UNCHANGED NonRecordVars

\* interface.increment_metrics(write_ops, read_ops, verify_ops, error_count)
CallIncrementMetrics ==
    /\ hist.cnt.n < MaxCounterOps
    /\ \E a \in IncrementArgs :
          LET res == IncrementMetrics(rec, a)
          IN  /\ rec' = res.rec
              /\ hist' = [hist EXCEPT !.cnt = CntCall("increment_metrics", "",
                                                     0, a, NoUpdate,
                                                     res.raised)]
    /\ UNCHANGED NonRecordVars

NextCnt ==
    \/ CallSetCounter
    \/ CallIncrementCycle
    \/ CallUpdateMetrics
    \/ CallIncrementMetrics

SpecCnt == InitAcc /\ [][NextCnt]_vars

(***************************************************************************)
(* The accessor's calls one store at a time, with the host running beside  *)
(* them.  A call is the sequence of its checks and stores; the host is the *)
(* monitoring loop of standalone_test.py.                                  *)
(***************************************************************************)
Check(ok) ==
    [op |-> "check", field |-> "", text |-> <<>>, value |-> 0, ok |-> ok]

StoreText(f, text) ==
    [op |-> "text", field |-> f, text |-> text, value |-> 0, ok |-> TRUE]

StoreFlag(f) ==
    [op |-> "flag", field |-> f, text |-> <<>>, value |-> 0, ok |-> TRUE]

StoreInt(f, v) ==
    [op |-> "int", field |-> f, text |-> <<>>, value |-> v, ok |-> TRUE]

AddOne(f) ==
    [op |-> "inc", field |-> f, text |-> <<>>, value |-> 1, ok |-> TRUE]

\* a text setter that raises the flag before it stores the text
TextSetterFlagFirst(f, text) ==
    <<Check(~TooLong(text, Width(f)))>>
        \o (IF FlagOf(f) = "none" THEN <<>> ELSE <<StoreFlag(FlagOf(f))>>)
        \o <<StoreText(f, text)>>

\* the status and error_message setters: the check, the text, the flag
TextSetter(f, text) ==
    <<Check(~TooLong(text, Width(f))), StoreText(f, text)>>
        \o (IF FlagOf(f) = "none" THEN <<>> ELSE <<StoreFlag(FlagOf(f))>>)

\* a set_error that raises new_error after the severity and the count
SetErrorStepsFlagLast(message, severity, long) ==
    <<Check(~TooLong(message, Width("error_message"))),
      StoreText("error_message", message),
      Check(severity \in Severities),
      StoreInt("error_severity", severity),
      AddOne("error_count"),
      StoreFlag("new_error")>>
        \o (IF long = <<>> THEN <<>> ELSE TextSetter("error_long", long))

\* set_error: the four assignments one after another
SetErrorSteps(message, severity, long) ==
    TextSetter("error_message", message)
        \o <<Check(severity \in Severities),
             StoreInt("error_severity", severity),
             AddOne("error_count")>>
        \o (IF long = <<>> THEN <<>> ELSE TextSetter("error_long", long))

\* the calls the plug-in makes
StepCalls ==
    {[call |-> "status", text |-> t, severity |-> 0, long |-> <<>>] :
        t \in {TextA, Fill(67, PLUGIN_MAXDISPLAYTEXT)}}
    \cup {[call |-> "error_message", text |-> TextA, severity |-> 0,
           long |-> <<>>]}
    \cup {[call |-> "set_error", text |-> TextSpecial, severity |-> s,
           long |-> l] :
            s \in {SEVERITY_CRITICAL, SEVERITY_TERMINAL + 1},
            l \in {<<>>, TextA}}
    \cup {[call |-> "error_count", text |-> <<>>,
           severity |-> MaxOf("error_count"), long |-> <<>>]}
    \cup {[call |-> "increment_cycle", text |-> <<>>, severity |-> 0,
           long |-> <<>>]}

Steps(c) ==
    CASE c.call = "set_error" -> SetErrorSteps(c.text, c.severity, c.long)
      [] c.call = "error_count" ->
            <<Check(c.severity >= 0), StoreInt("error_count", c.severity)>>
      [] c.call = "increment_cycle" -> <<AddOne("cycle")>>
      [] OTHER -> TextSetter(c.call, c.text)

NoCall == [call |-> "none", text |-> <<>>, severity |-> 0, long |-> <<>>]

NoStep ==
    [call |-> NoCall, steps |-> <<>>, at |-> 1, old |-> DefaultBytes,
     writes |-> <<>>, raised |-> "none", n |-> 0]

\* the host's loop: cycle_count = -1, nothing read yet
NoHost ==
    [at |-> "sleep", cycle_count |-> -1,
     seen |-> [error_count |-> 0, error_message |-> <<>>], prints |-> 0]

InCall == hist.step.at <= Len(hist.step.steps)

Current == hist.step.steps[hist.step.at]

Advance(field) ==
    [hist.step EXCEPT !.at = @ + 1, !.writes = Append(@, field)]

\* the plug-in begins a call of the accessor
PluginCall ==
    /\ ~InCall
    /\ hist.step.n < MaxCalls
    /\ \E c \in StepCalls :
          hist' = [hist EXCEPT !.step =
                      [call |-> c, steps |-> Steps(c), at |-> 1, old |-> rec,
                       writes |-> <<>>, raised |-> "none",
                       n |-> hist.step.n + 1]]
    /\ UNCHANGED rec
    /\ UNCHANGED NonRecordVars

\* a validation of the call: it passes or raises ValidationError
PluginCheck ==
    /\ InCall
    /\ Current.op = "check"
    /\ hist' = [hist EXCEPT !.step =
                   IF Current.ok THEN [@ EXCEPT !.at = @ + 1]
                   ELSE [@ EXCEPT !.at = Len(hist.step.steps) + 1,
                                  !.raised = "ValidationError"]]
    /\ UNCHANGED rec
    /\ UNCHANGED NonRecordVars

\* self._struct.<text field> = text.encode()
PluginStoreText ==
    /\ InCall
    /\ Current.op = "text"
    /\ LET w == CharArraySet(rec[Current.field], Encode(Current.text))
       IN  IF w.ok
           THEN /\ rec' = [rec EXCEPT ![Current.field] = w.field]
                /\ hist' = [hist EXCEPT !.step = Advance(Current.field)]
           ELSE /\ rec' = rec
                /\ hist' = [hist EXCEPT !.step.at = Len(hist.step.steps) + 1,
                                        !.step.raised = "ValueError"]
    /\ UNCHANGED NonRecordVars

\* self._struct.OUT_bNewStatus = True, self._struct.OUT_bNewError = True
PluginStoreFlag ==
    /\ InCall
    /\ Current.op = "flag"
    /\ rec' = [rec EXCEPT ![Current.field] = TRUE]
    /\ hist' = [hist EXCEPT !.step = Advance(Current.field)]
    /\ UNCHANGED NonRecordVars

\* self._struct.<integer field> = value
PluginStoreInt ==
    /\ InCall
    /\ Current.op = "int"
    /\ rec' = [rec EXCEPT ![Current.field] =
                  IF Current.field \in CounterFields
                  THEN Store(Current.field, Current.value)
                  ELSE Current.value]
    /\ hist' = [hist EXCEPT !.step = Advance(Current.field)]
    /\ UNCHANGED NonRecordVars

\* self.error_count += 1 (through the setter), OUT_iCycle += 1 (directly)
PluginAddOne ==
    /\ InCall
    /\ Current.op = "inc"
    /\ LET res == IF Current.field = "cycle"
                  THEN [raised |-> "none", rec |-> IncrementCycle(rec)]
                  ELSE SetCounter(rec, Current.field, rec[Current.field] + 1)
       IN  /\ rec' = res.rec
           /\ hist' = [hist EXCEPT !.step =
                          IF res.raised = "none" THEN Advance(Current.field)
                          ELSE [@ EXCEPT !.at = Len(hist.step.steps) + 1,
                                         !.raised = res.raised]]
    /\ UNCHANGED NonRecordVars

\* standalone_test.py lines 38-39: the host looks at the cycle counter
HostPoll ==
    /\ hist.host.at = "sleep"
    /\ rec.cycle # hist.host.cycle_count
    /\ hist' = [hist EXCEPT !.host.cycle_count = rec.cycle,
                            !.host.at = "check"]
    /\ UNCHANGED rec
    /\ UNCHANGED NonRecordVars

\* line 50: if interface.OUT_bNewError
HostCheckError ==
    /\ hist.host.at = "check"
    /\ hist' = [hist EXCEPT !.host.at = IF rec.new_error THEN "print"
                                        ELSE "sleep"]
    /\ UNCHANGED rec
    /\ UNCHANGED NonRecordVars

\* line 51: the host reads the error count and the error text
HostPrintError ==
    /\ hist.host.at = "print"
    /\ hist' = [hist EXCEPT !.host.at = "clear",
                   !.host.prints = IF @ < MaxCalls THEN @ + 1 ELSE @,
                   !.host.seen = [error_count |-> rec.error_count,
                                  error_message |-> GetText(rec, "error_message")]]
    /\ UNCHANGED rec
    /\ UNCHANGED NonRecordVars

\* line 52: interface.OUT_bNewError = False
HostClearNewError ==
    /\ hist.host.at = "clear"
    /\ rec' = [rec EXCEPT !.new_error = FALSE]
    /\ hist' = [hist EXCEPT !.host.at = "sleep"]
    /\ UNCHANGED NonRecordVars

InitStepwise ==
    /\ pc = "idle"
    /\ is_running = FALSE
    /\ current_cycle = 0
    /\ current_phase = "none"
    /\ phase_idx = 0
    /\ eng_connection = FALSE
    /\ eng_interface = FALSE
    /\ conn = [NewConnection EXCEPT !.is_connected = TRUE,
                                    !.file_mapping_handle = TRUE,
                                    !.mapped_address = TRUE,
                                    !.interface = TRUE,
                                    !.shared_memory_name = "BITest_1"]
    /\ os = [mapped |-> TRUE, handle |-> TRUE, n_views |-> 1, n_handles |-> 1]
    /\ rec = [DefaultBytes EXCEPT !.test_running = 1, !.duty_cycle = 50]
    /\ exc = "none"
    /\ exc_len = 0
    /\ sleep_time = 0
    /\ plugin = [name |-> "Demo plugin", overrides |-> FALSE,
                 has_on_test_end |-> FALSE]
    /\ hist = [f \in DOMAIN InitHist \cup {"step", "host"} |->
                  CASE f = "step" -> NoStep
                    [] f = "host" -> NoHost
                    [] OTHER -> InitHist[f]]

NextStepwise ==
    \/ PluginCall
    \/ PluginCheck
    \/ PluginStoreText
    \/ PluginStoreFlag
    \/ PluginStoreInt
    \/ PluginAddOne
    \/ HostPoll
    \/ HostCheckError
    \/ HostPrintError
    \/ HostClearNewError
    \/ HostSetTestRunning
    \/ HostSetDutyCycle

SpecStepwise == InitStepwise /\ [][NextStepwise]_vars

(***************************************************************************)
(* The layout of the Record: the structure the plug-in maps                *)
(* (PluginInterfaceStructure) and the structure the host simulator         *)
(* allocates (PLUGININTERFACE) declare the same fields; ctypes places      *)
(* them one after another, each at the next multiple of its alignment.     *)
(***************************************************************************)
F(name, type, count) == [name |-> name, type |-> type, count |-> count]

\* _fields_ of both structures
StructureFields ==
    <<F("IN_TestRunning", "int", 1),
      F("IN_DutyCycle", "int", 1),
      F("OUT_Plugin_interface_version", "int", 1),
      F("OUT_szWindowTitle", "char", PLUGIN_MAXDISPLAYTEXT),
      F("OUT_iCycle", "uint", 1),
      F("OUT_iStatus", "int", 1),
      F("OUT_szStatus", "char", PLUGIN_MAXDISPLAYTEXT),
      F("OUT_iErrorCount", "int", 1),
      F("OUT_szError", "char", PLUGIN_MAXERRORTEXT),
      F("OUT_iErrorSeverity", "int", 1),
      F("OUT_szWriteOps", "char", PLUGIN_MAXDISPLAYTEXT),
      F("OUT_i64WriteOps", "int64", 1),
      F("OUT_szReadOps", "char", PLUGIN_MAXDISPLAYTEXT),
      F("OUT_i64ReadOps", "int64", 1),
      F("OUT_szVerifyOps", "char", PLUGIN_MAXDISPLAYTEXT),
      F("OUT_i64VerifyOps", "int64", 1),
      F("OUT_bUserDef1", "bool", 1),
      F("OUT_szUserDef1", "char", PLUGIN_MAXDISPLAYTEXT),
      F("OUT_szUserDefVal1", "char", PLUGIN_MAXDISPLAYTEXT),
      F("OUT_bUserDef2", "bool", 1),
      F("OUT_szUserDef2", "char", PLUGIN_MAXDISPLAYTEXT),
      F("OUT_szUserDefVal2", "char", PLUGIN_MAXDISPLAYTEXT),
      F("OUT_bDisplayTextSet", "bool", 1),
      F("OUT_bNewError", "bool", 1),
      F("OUT_bNewStatus", "bool", 1),
      F("OUT_bNewUserDefVal1", "bool", 1),
      F("OUT_bNewUserDefVal2", "bool", 1),
      F("OUT_bTestStopped", "bool", 1),
      F("OUT_bUserDef3", "bool", 1),
      F("OUT_szUserDef3", "char", PLUGIN_MAXDISPLAYTEXT),
      F("OUT_szUserDefVal3", "char", PLUGIN_MAXDISPLAYTEXT),
      F("OUT_bUserDef4", "bool", 1),
      F("OUT_szUserDef4", "char", PLUGIN_MAXDISPLAYTEXT),
      F("OUT_szUserDefVal4", "char", PLUGIN_MAXDISPLAYTEXT),
      F("OUT_bUserDef5", "bool", 1),
      F("OUT_szUserDef5", "char", PLUGIN_MAXDISPLAYTEXT),
      F("OUT_szUserDefVal5", "char", PLUGIN_MAXDISPLAYTEXT),
      F("OUT_bUserDef6", "bool", 1),
      F("OUT_szUserDef6", "char", PLUGIN_MAXDISPLAYTEXT),
      F("OUT_szUserDefVal6", "char", PLUGIN_MAXDISPLAYTEXT),
      F("OUT_szErrorLong", "char", PLUGIN_MAXERRORTEXTLONG)>>

\* sizeof of a ctypes scalar
SizeOfType(type) ==
    CASE type = "int64" -> 8
      [] type \in {"int", "uint"} -> 4
      [] OTHER -> 1

SizeOfField(fld) == SizeOfType(fld.type) * fld.count

\* the alignment of a field: that of its scalar type, capped by _pack_ when
\* _pack_ is set (0 stands for a structure that does not set it)
AlignOf(fld, pack) ==
    IF pack > 0 /\ pack < SizeOfType(fld.type) THEN pack
    ELSE SizeOfType(fld.type)

RoundUp(n, a) == ((n + a - 1) \div a) * a

NoLayout == [placed |-> 0, end |-> 0, offsets |-> <<>>, align |-> 1]

\* the next field of a structure is placed
PlaceField(view, pack) ==
    LET fld == StructureFields[view.placed + 1]
        a == AlignOf(fld, pack)
        at == RoundUp(view.end, a)
    IN  [placed |-> view.placed + 1, end |-> at + SizeOfField(fld),
         offsets |-> Append(view.offsets, at),
         align |-> IF a > view.align THEN a ELSE view.align]

\* sizeof(structure), once every field is placed
SizeOfStructure(view) == RoundUp(view.end, view.align)

\* PluginInterfaceStructure: the next field
PlacePluginField ==
    /\ hist.plugin_view.placed < Len(StructureFields)
    /\ hist' = [hist EXCEPT !.plugin_view = PlaceField(@, PluginPack)]
    /\ UNCHANGED rec
    /\ UNCHANGED NonRecordVars

\* PLUGININTERFACE: the next field
PlaceHostField ==
    /\ hist.host_view.placed < Len(StructureFields)
    /\ hist' = [hist EXCEPT !.host_view = PlaceField(@, HostPack)]
    /\ UNCHANGED rec
    /\ UNCHANGED NonRecordVars

InitLayout ==
    /\ pc = "idle"
    /\ is_running = FALSE
    /\ current_cycle = 0
    /\ current_phase = "none"
    /\ phase_idx = 0
    /\ eng_connection = FALSE
    /\ eng_interface = FALSE
    /\ conn = NewConnection
    /\ os = [mapped |-> FALSE, handle |-> FALSE, n_views |-> 0, n_handles |-> 0]
    /\ rec = ZeroBytes
    /\ exc = "none"
    /\ exc_len = 0
    /\ sleep_time = 0
    /\ plugin = [name |-> "Demo plugin", overrides |-> FALSE,
                 has_on_test_end |-> FALSE]
    /\ hist = [f \in DOMAIN InitHist \cup {"plugin_view", "host_view"} |->
                  IF f \in {"plugin_view", "host_view"} THEN NoLayout
                  ELSE InitHist[f]]

NextLayout ==
    \/ PlacePluginField
    \/ PlaceHostField

SpecLayout == InitLayout /\ [][NextLayout]_vars

(***************************************************************************)
(* strn_clean_cpy, the sanitizing copy: the package's (utils) and the      *)
(* example plug-in's.  Each is applied to every short input and width.     *)
(***************************************************************************)
\* str.encode('ascii', 'ignore'): code points outside ASCII are dropped
AsciiIgnore(text) == SelectSeq(text, LAMBDA c : c < 128)

InputBytes(kind, text_in) ==
    IF kind = "str" THEN AsciiIgnore(text_in) ELSE text_in

\* text_in[:max_len-1]
Truncate(data, max_len) ==
    SubSeq(data, 1, IF Len(data) < max_len - 1 THEN Len(data) ELSE max_len - 1)

\* the example plug-in's replacement: control bytes, '%' and '\'
CleanByte(b) == IF b < 32 \/ b = 37 \/ b = 92 THEN 32 ELSE b

\* the package's replacement: an int byte is never `in (b'%', b'\\')`
CleanByteUtils(b) == IF b < 32 THEN 32 ELSE b

\* utils/string_utils.py: the loop stops at the first zero byte
StrnCleanCpy(kind, text_in, max_len) ==
    LET t == Truncate(InputBytes(kind, text_in), max_len)
        n == StrLen(t)
    IN  [i \in 1..n |-> CleanByteUtils(t[i])] \o Fill(0, max_len - n)

\* examples/plugin_interface.py
StrnCleanCpyExample(kind, text_in, max_len) ==
    LET t == Truncate(InputBytes(kind, text_in), max_len)
    IN  [i \in 1..Len(t) |-> CleanByte(t[i])] \o Fill(0, max_len - Len(t))

SanBytes == {0, 7, 37, 65, 92, 233}

RECURSIVE SeqsUpTo(_, _)
SeqsUpTo(S, n) ==
    IF n = 0 THEN {<<>>}
    ELSE LET shorter == SeqsUpTo(S, n - 1)
         IN  shorter \cup {Append(s, b) : s \in shorter, b \in S}

SanInputs == SeqsUpTo(SanBytes, MaxTextLen)
SanWidths == 1..MaxWidth

InitSan ==
    /\ pc = "idle"
    /\ is_running = FALSE
    /\ current_cycle = 0
    /\ current_phase = "none"
    /\ phase_idx = 0
    /\ eng_connection = FALSE
    /\ eng_interface = FALSE
    /\ conn = NewConnection
    /\ os = [mapped |-> FALSE, handle |-> FALSE, n_views |-> 0, n_handles |-> 0]
    /\ rec = ZeroBytes
    /\ exc = "none"
    /\ exc_len = 0
    /\ sleep_time = 0
    /\ plugin = [name |-> "Demo plugin", overrides |-> FALSE,
                 has_on_test_end |-> FALSE]
    /\ \E kind \in {"bytes", "str"}, text_in \in SanInputs, w \in SanWidths :
          hist = [InitHist EXCEPT !.san = [impl |-> "none", kind |-> kind,
                      text_in |-> text_in, max_len |-> w, text_out |-> <<>>]]

CallStrnCleanCpy ==
    /\ hist.san.impl = "none"
    /\ hist' = [hist EXCEPT !.san.impl = "utils",
                   !.san.text_out = StrnCleanCpy(hist.san.kind,
                                        hist.san.text_in, hist.san.max_len)]
    /\ UNCHANGED rec
    /\ UNCHANGED NonRecordVars

CallStrnCleanCpyExample ==
    /\ hist.san.impl = "none"
    /\ hist' = [hist EXCEPT !.san.impl = "example",
                   !.san.text_out = StrnCleanCpyExample(hist.san.kind,
                                        hist.san.text_in, hist.san.max_len)]
    /\ UNCHANGED rec
    /\ UNCHANGED NonRecordVars

NextSan ==
    \/ CallStrnCleanCpy
    \/ CallStrnCleanCpyExample

SpecSan == InitSan /\ [][NextSan]_vars

(***************************************************************************)
(* Properties.                                                             *)
(***************************************************************************)
CleanupPcs == {"cleanup", "cleanup_stop", "cleanup_disc"}

AfterLoopPcs == {"test_end", "loop_except", "run_except"} \cup CleanupPcs
                    \cup {"done"}

CycleSeq == <<"on_cycle_start">> \o Phases \o <<"on_cycle_end">>

AllPhases == {Phases[k] : k \in 1..Len(Phases)}

IsPrefix(s, t) == Len(s) <= Len(t) /\ s = SubSeq(t, 1, Len(s))

Disconnected ==
    /\ ~conn.is_connected
    /\ ~conn.mapped_address
    /\ ~conn.file_mapping_handle

\* C1: after run() has returned or raised, once the connection had been
\* established, the connection is Disconnected (address and handle released)
\* and the engine's cached Accessor is dropped, whatever ended the run, an
\* exception of on_stop included.
C1_DisconnectedAfterRun ==
    (pc = "done" /\ hist.established) =>
        (Disconnected /\ ~conn.interface /\ ~eng_interface)

\* C2: when a phase callback has returned False, then on return from the
\* phases the Record has error_count one higher than at the start of the
\* cycle, severity Critical, new_error set and a message naming the phase,
\* and on_error has been called exactly once for it.
C2_FalsePhaseRecordedOnce ==
    (pc = "test_end" /\ hist.fail_kind = "false") =>
        /\ rec.error_count = hist.snap.err.count + 1
        /\ rec.error_severity = SEVERITY_CRITICAL
        /\ rec.new_error
        /\ rec.error_message.phase = hist.fail
        /\ hist.on_error = hist.snap.on_error + 1

\* C3: when a phase callback has raised, whatever the length of the
\* exception's text, the Record holds a Critical error naming the phase, with
\* error_count one higher than at the start of the cycle and new_error set.
C3_RaisedPhaseRecorded ==
    (pc \in ({"exc_hook"} \cup AfterLoopPcs) /\ hist.fail_kind = "raised") =>
        /\ rec.error_count = hist.snap.err.count + 1
        /\ rec.error_severity = SEVERITY_CRITICAL
        /\ rec.new_error
        /\ rec.error_message.phase = hist.fail

\* C4: a run that ended because a phase callback returned False or raised
\* ends with run() raising an exception to its caller.
C4_PhaseFailureRaises ==
    (pc = "done" /\ hist.fail # "none") => hist.result = "raised"

\* C5: whenever the main loop has been left, for whatever reason, on_test_end
\* has been called exactly once by the time cleanup starts.
C5_TestEndOnce ==
    (pc \in CleanupPcs \cup {"done"} /\ hist.exit # "none") =>
        hist.on_test_end = 1

\* C6: a cycle in which all three phases succeeded leaves the Record's cycle
\* counter one higher than it was when the cycle started.
C6_CycleIncremented ==
    (pc = "cycle_end" /\ hist.okset = AllPhases) =>
        rec.cycle = current_cycle + 1

\* C7: once the host has cleared test_running and the loop has left for that
\* reason, run() completes cleanup with the connection Disconnected.
C7_HostStopDisconnects ==
    (pc = "done" /\ hist.exit = "host") => Disconnected

\* C8: within every cycle the calls occur in the order on_cycle_start, Write,
\* Read, Verify, on_cycle_end; a phase is invoked only after the preceding
\* phase returned success; on_cycle_end is called if and only if all three
\* phases succeeded; on_start is called once, before the first cycle.
C8_CycleOrder ==
    /\ IsPrefix(hist.log, CycleSeq)
    /\ \A k \in 2..Len(Phases) :
          Len(hist.log) >= k + 1 => Phases[k - 1] \in hist.okset
    /\ Len(hist.log) = Len(CycleSeq) => hist.okset = AllPhases
    /\ hist.okset = AllPhases =>
          (Len(hist.log) = Len(CycleSeq) \/ pc = "cycle_end")
    /\ hist.on_start <= 1
    /\ hist.log # <<>> => hist.on_start = 1

C8_Witness ==
    /\ hist.log = CycleSeq
    /\ hist.okset = AllPhases
    /\ pc = "loop"

\* C9: if the local running flag or test_running is false immediately before
\* a phase, that phase and the later phases of the cycle are not invoked and
\* no error is marked: the step leaves error_count, error message, severity
\* and new_error as they were and does not call on_error, and the Record's
\* error fields stay as they were at the start of the cycle.
C9_AbortMarksNoError ==
    /\ [][(pc = "phase" /\ ~(is_running /\ rec.test_running # 0)) =>
             /\ pc' \in {"phase", "test_end"}
             /\ hist'.log = hist.log
             /\ ErrorFields(rec') = ErrorFields(rec)
             /\ hist'.on_error = hist.on_error]_vars
    /\ [](hist.aborted # "none" =>
             /\ ErrorFields(rec) = hist.snap.err
             /\ hist.fail = "none")

C9_Witness ==
    /\ hist.aborted = "Read"
    /\ hist.exit = "host"
    /\ pc = "done"

\* C10: stop() only clears the local running flag (and calls on_stop): it
\* leaves run() where it is, an in-flight phase callback included; once a run
\* has been stopped no phase callback and no cycle begins; stop() on an
\* engine that is not running changes nothing.
C10_StopCooperative ==
    [][/\ hist'.stop_calls # hist.stop_calls =>
             /\ pc' = pc
             /\ phase_idx' = phase_idx
             /\ current_phase' = current_phase
             /\ rec' = rec
             /\ ~is_running'
       /\ (hist'.stop_calls # hist.stop_calls /\ ~is_running) =>
             /\ UNCHANGED <<pc, is_running, current_cycle, current_phase,
                            phase_idx, eng_connection, eng_interface, conn,
                            os, rec, exc, exc_len, sleep_time, plugin>>
             /\ hist' = [hist EXCEPT !.stop_calls = @ + 1]
       /\ hist.stopped =>
             /\ (pc' = "in_phase" => pc = "in_phase")
             /\ (pc = "loop" => pc' \in {"loop", "test_end"})
             /\ (Len(hist'.log) > Len(hist.log) => pc = "cycle_end")]_vars

C10_Witness ==
    /\ hist.stopped
    /\ hist.aborted = "Verify"
    /\ hist.exit = "local"
    /\ hist.okset = {"Write", "Read"}

\* C11: in every run on_stop is invoked during cleanup, after status code
\* Cleanup and test_stopped were written and before disconnect, also when the
\* run was ended by a local stop(): every call of on_stop made so far was
\* made by the cleanup, and a started run has called it once by the time the
\* cleanup disconnects.
C11_OnStopInCleanup ==
    /\ hist.on_stop > 0 => hist.on_stop_at = "cleanup_stop"
    /\ (pc \in {"cleanup_disc", "done"} /\ hist.on_start = 1) =>
          hist.on_stop = 1

\* C12: run() called while the engine is running fails at once with
\* PluginError and changes nothing: the position of the active run, its
\* connection, cached Accessor, running flag and the Record are left as they
\* were, and no hook is called.
C12_RejectedRunChangesNothing ==
    [][hist'.rejected # hist.rejected =>
          /\ is_running
          /\ hist'.reject_exc = "PluginError"
          /\ UNCHANGED <<pc, is_running, current_cycle, current_phase,
                         phase_idx, eng_connection, eng_interface, conn, os,
                         rec, exc, exc_len, sleep_time, plugin>>
          /\ hist' = [hist EXCEPT !.rejected = @ + 1,
                                  !.reject_exc = "PluginError"]]_vars

C12_Witness ==
    /\ hist.rejected = 1
    /\ pc = "in_phase"
    /\ is_running
    /\ conn.is_connected
    /\ eng_interface

\* C13: a plugin that supplies only the three phase operations and overrides
\* no hook runs without any hook-related failure: no call of a hook, that of
\* on_test_end included, raises.
C13_NoHookFailure ==
    ~plugin.overrides => exc \notin {"AttributeError", "HookError"}

\* C14: after a completed cycle the engine pauses for (100 - duty_cycle) *
\* delay when duty_cycle < 100 and not at all when duty_cycle = 100, with the
\* duty_cycle the Record holds at that moment; the pause comes once per
\* completed cycle, after on_cycle_end, never between phases.
C14_DutyCyclePause ==
    /\ [][(pc = "duty" /\ pc' # "duty") =>
             /\ hist.log = CycleSeq
             /\ hist.pauses = 0
             /\ pc' = "loop"
             /\ rec.duty_cycle < 100 =>
                   /\ sleep_time' = (100 - rec.duty_cycle) * DelayUnit
                   /\ hist'.pauses = 1
             /\ rec.duty_cycle = 100 =>
                   /\ sleep_time' = 0
                   /\ hist'.pauses = 0]_vars
    /\ [][(hist'.pauses # hist.pauses /\ hist'.pauses # 0) => pc = "duty"]_vars
    /\ [][(pc = "cycle_end" /\ pc' # "cycle_end") =>
             pc' \in {"duty", "loop_except"}]_vars
    /\ [](hist.pauses <= 1)

C14_Witness ==
    /\ hist.pauses = 1
    /\ sleep_time = 50 * DelayUnit
    /\ rec.duty_cycle = 50
    /\ hist.log = CycleSeq
    /\ pc = "loop"

OutputFields(r) == [r EXCEPT !.test_running = 0, !.duty_cycle = 0]

\* C15: if the connect of run() fails (bad name prefix, open failure or map
\* failure), no output field of the Record is written, neither on_start nor a
\* phase callback is invoked, the running flag is never set, and run() ends
\* by raising ConnectionError.
C15_ConnectFailureAborts ==
    hist.connect \in {"badname", "openfail", "mapfail"} =>
        /\ OutputFields(rec) = OutputFields(InitRecord(0, 0))
        /\ hist.on_start = 0
        /\ hist.log = <<>>
        /\ ~is_running
        /\ pc = "done" => (hist.result = "raised" /\ exc = "ConnectionError")

ConnectStep == hist'.api # hist.api /\ hist'.api.op = "connect"

Owned(held) == IF held THEN 1 ELSE 0

\* C16: after connect() has returned or raised, on any path, the instance is
\* either Connected and holds both the handle and the mapped address, or not
\* Connected and holds neither, and nothing it obtained from the transport is
\* left unreleased; connect() raised exactly when the instance is not
\* Connected; on a map failure the opened handle was closed before the error.
C16_ConnectAllOrNothing ==
    /\ \/ conn.is_connected /\ conn.file_mapping_handle /\ conn.mapped_address
       \/ Disconnected
    /\ os.n_handles = Owned(conn.file_mapping_handle)
    /\ os.n_views = Owned(conn.mapped_address)
    /\ hist.api.op = "connect" => (hist.api.raised <=> ~conn.is_connected)
    /\ hist.api.outcome = "mapfail" =>
          hist.api.calls = <<"open", "map", "close">>
    /\ hist.api.outcome \in {"ctorfail", "initfail"} =>
          hist.api.calls = <<"open", "map", "unmap", "close">>

C16_Witness ==
    /\ hist.api.outcome = "mapfail"
    /\ hist.api.calls = <<"open", "map", "close">>
    /\ Disconnected
    /\ os.n_handles = 0

\* C17: a cached Accessor is held only while the mapping it views is mapped:
\* whenever the connection holds no mapped address it holds no Accessor.
C17_AccessorOnlyWhileMapped ==
    conn.interface => conn.mapped_address

HasPrefixBI(name) == Len(name) >= 2 /\ SubSeq(name, 1, 2) = "BI"

C19_ReconnectNoOp ==
    /\ [][(ConnectStep /\ conn.is_connected) =>
             /\ ~hist'.api.raised
             /\ hist'.api.calls = <<>>
             /\ rec' = rec
             /\ conn' = conn
             /\ os' = os]_vars
    /\ [](os.n_handles <= 1 /\ os.n_views <= 1)

C19_Witness ==
    /\ hist.api.outcome = "already"
    /\ ~hist.api.raised
    /\ conn.is_connected
    /\ rec.status = "Plug-in write"
    /\ os.n_handles = 1

HasDefaults(r) ==
    /\ r.interface_version = 4
    /\ r.write_label = "Write (MBytes):"
    /\ r.read_label = "Read (MBytes):"
    /\ r.verify_label = "Verify (MBytes):"
    /\ r.status = "Initializing"
    /\ r.status_code = PLUGIN_STARTUP
    /\ \A k \in 1..2 :
          /\ r.user_enabled[k]
          /\ r.user_value[k] = "Ready"
    /\ r.user_label[1] = "Custom Field 1"
    /\ r.user_label[2] = "Custom Field 2"
    /\ r.display_text_set

\* C20: after a connect() that establishes the connection the Record holds
\* interface version 4, the three operation labels, status Initializing,
\* status code Startup, user slots 1 and 2 enabled with their placeholder
\* labels and values, and display_text_set; the instance becomes Connected
\* only when all the defaults have been written.
C20_DefaultsOnConnect ==
    [][(ConnectStep /\ ~conn.is_connected) =>
          /\ hist'.api.outcome = "ok" => (conn'.is_connected /\ HasDefaults(rec'))
          /\ conn'.is_connected => (hist'.api.outcome = "ok" /\ HasDefaults(rec'))
          /\ hist'.api.outcome = "initfail" => ~conn'.is_connected]_vars

C20_Witness ==
    /\ hist.api.op = "connect"
    /\ hist.api.outcome = "ok"
    /\ conn.is_connected
    /\ HasDefaults(rec)
    /\ rec.test_stopped

DisconnectStep == hist'.api # hist.api /\ hist'.api.op = "disconnect"

\* C21: disconnect() on an instance that is not Connected is a no-op (no
\* transport call, no Record write); on a Connected instance it ends
\* Disconnected with the cached Accessor cleared and the handle and the
\* address dropped, also when a best-effort write fails or unmap / close
\* report failure; a second disconnect() changes nothing more.
C21_DisconnectAlways ==
    /\ [][(DisconnectStep /\ ~conn.is_connected) =>
             /\ hist'.api.calls = <<>>
             /\ ~hist'.api.raised
             /\ rec' = rec
             /\ conn' = conn
             /\ os' = os]_vars
    /\ [][(DisconnectStep /\ conn.is_connected) =>
             /\ ~hist'.api.raised
             /\ Disconnected'
             /\ ~conn'.interface
             /\ ~conn'.is_connected
             /\ os'.n_handles = 0
             /\ os'.n_views = 0]_vars

C21_Witness ==
    /\ hist.api.op = "disconnect"
    /\ hist.api.calls = <<"unmap", "close">>
    /\ Disconnected
    /\ ~conn.interface
    /\ os.mapped
    /\ os.handle

IsRecordWrite(call) == call \in {"set_test_stopped", "set_status_code"}

\* C22: during disconnect() the writes of test_stopped and of status code
\* Cleanup come before the unmap, the unmap comes before the close of the
\* handle, and no Record write comes after the unmap.
C22_DisconnectOrder ==
    [][(DisconnectStep /\ conn.is_connected) =>
          LET calls == hist'.api.calls
              n == Len(calls)
          IN  /\ n >= 2
              /\ calls[n - 1] = "unmap"
              /\ calls[n] = "close"
              /\ \A i \in 1..(n - 2) : IsRecordWrite(calls[i])
              /\ \A i \in 1..n :
                    IsRecordWrite(calls[i]) =>
                        \A j \in 1..n : calls[j] = "unmap" => i < j
              /\ (rec'.test_stopped # rec.test_stopped) =>
                    calls[1] = "set_test_stopped"
              /\ (rec'.status_code # rec.status_code) =>
                    (n = 4 /\ calls[2] = "set_status_code")]_vars

C22_Witness ==
    /\ hist.api.op = "disconnect"
    /\ hist.api.calls =
          <<"set_test_stopped", "set_status_code", "unmap", "close">>
    /\ rec.test_stopped
    /\ rec.status_code = PLUGIN_CLEANUP
    /\ Disconnected

(***************************************************************************)
(* The accessor's operations                                               *)
(***************************************************************************)
AccStep(op) == hist'.acc # hist.acc /\ hist'.acc.op = op

\* C23: set_user_field fails with ValidationError, the Record unchanged,
\* when the id is outside 1..6 or the label or the value is not shorter than
\* the short-text width; get_user_field fails with ValidationError for an
\* id outside 1..6.
C23_UserFieldValidation ==
    [][/\ AccStep("set_user_field") =>
            LET a == hist'.acc
            IN  (\/ a.id \notin 1..6
                 \/ Len(a.text) >= PLUGIN_MAXDISPLAYTEXT
                 \/ Len(a.value) >= PLUGIN_MAXDISPLAYTEXT)
                    => (a.raised = "ValidationError" /\ rec' = rec)
       /\ AccStep("get_user_field") =>
            (hist'.acc.id \notin 1..6 => hist'.acc.raised = "ValidationError")
      ]_vars

\* C24: set_error with a message of 100 or more characters, a long message
\* of 201 or more, or a severity outside the enumeration fails with
\* ValidationError and leaves the error message, severity, count, long text
\* and new_error flag as they were.
C24_SetErrorAllOrNothing ==
    [][AccStep("set_error") =>
          LET a == hist'.acc
          IN  (\/ Len(a.text) >= PLUGIN_MAXERRORTEXT
               \/ Len(a.long) >= PLUGIN_MAXERRORTEXTLONG
               \/ a.severity \notin Severities)
                  => /\ a.raised = "ValidationError"
                     /\ rec'.error_message = rec.error_message
                     /\ rec'.error_severity = rec.error_severity
                     /\ rec'.error_count = rec.error_count
                     /\ rec'.error_long = rec.error_long
                     /\ rec'.new_error = rec.new_error
      ]_vars

\* C25: a single-field text setter given a text at least as long as the
\* field's width fails with ValidationError and leaves the field's bytes
\* and every notification flag as they were.
C25_OverLengthRejected ==
    [][AccStep("set_text") =>
          LET a == hist'.acc
          IN  Len(a.text) >= Width(a.field)
                  => /\ a.raised = "ValidationError"
                     /\ rec'[a.field] = rec[a.field]
                     /\ rec'.new_status = rec.new_status
                     /\ rec'.new_error = rec.new_error
                     /\ rec'.new_user = rec.new_user
      ]_vars

C25_Witness ==
    /\ hist.acc.op = "set_text"
    /\ hist.acc.field = "error_long"
    /\ Len(hist.acc.text) = PLUGIN_MAXERRORTEXTLONG
    /\ hist.acc.raised = "ValidationError"
    /\ hist.acc.n = MaxOps
    /\ rec.new_error

\* the bytes of a field before its terminator
Payload(field) == SubSeq(field, 1, StrLen(field))

NoSpecialBytes(data) == \A i \in 1..Len(data) : CleanByte(data[i]) = data[i]

\* C26: after a write through a text setter the written field holds no
\* control character before its terminator and no '%' or '\'.
C26_WrittenTextClean ==
    [][/\ (AccStep("set_text") /\ hist'.acc.raised = "none")
              => NoSpecialBytes(Payload(rec'[hist'.acc.field]))
       /\ (AccStep("set_user_field") /\ hist'.acc.raised = "none")
              => /\ NoSpecialBytes(Payload(rec'.user_label[hist'.acc.id]))
                 /\ NoSpecialBytes(Payload(rec'.user_value[hist'.acc.id]))
      ]_vars

\* C27: after a text setter is given a text shorter than the width, the
\* call has succeeded, the getter returns the input with control
\* characters, '%' and '\' replaced by spaces, which is shorter than the
\* width, and every byte of the field after the payload is zero.
C27_ReadBackSanitized ==
    [][AccStep("set_text") =>
          LET a == hist'.acc
              field == rec'[a.field]
          IN  Len(a.text) < Width(a.field)
                  => /\ a.raised = "none"
                     /\ GetText(rec', a.field)
                            = [i \in 1..Len(a.text) |-> CleanByte(a.text[i])]
                     /\ StrLen(field) < Width(a.field)
                     /\ \A i \in (StrLen(field) + 1)..Len(field) : field[i] = 0
      ]_vars

\* C28: strn_clean_cpy writes exactly max_len bytes: the input truncated
\* to max_len - 1 bytes with every control byte, '%' and '\' replaced by a
\* space, then zero bytes.
C28_SanitizeExact ==
    hist.san.impl # "none" =>
        LET s == hist.san
            data == InputBytes(s.kind, s.text_in)
            n == IF Len(data) < s.max_len - 1 THEN Len(data) ELSE s.max_len - 1
        IN  /\ Len(s.text_out) = s.max_len
            /\ \A i \in 1..s.max_len :
                  s.text_out[i] = IF i <= n THEN CleanByte(data[i]) ELSE 0

\* C29: a successful set_user_field(id, label, value, enabled) writes the
\* label, value and enabled flag of slot id; for id 1 or 2 the matching
\* new-value flag is true afterwards; nothing else in the Record changes.
C29_UserFieldFrame ==
    [][(AccStep("set_user_field") /\ hist'.acc.raised = "none") =>
          LET a == hist'.acc
          IN  /\ Payload(rec'.user_label[a.id]) = Encode(a.text)
              /\ Payload(rec'.user_value[a.id]) = Encode(a.value)
              /\ rec'.user_enabled[a.id] = a.enabled
              /\ a.id \in {1, 2} => rec'.new_user[a.id]
              /\ \A k \in 1..2 : k # a.id => rec'.new_user[k] = rec.new_user[k]
              /\ \A k \in 1..6 : k # a.id =>
                    /\ rec'.user_label[k] = rec.user_label[k]
                    /\ rec'.user_value[k] = rec.user_value[k]
                    /\ rec'.user_enabled[k] = rec.user_enabled[k]
              /\ \A f \in DOMAIN rec \ {"user_label", "user_value",
                                        "user_enabled", "new_user"} :
                    rec'[f] = rec[f]
      ]_vars

C29_Witness ==
    /\ hist.acc.op = "set_user_field"
    /\ hist.acc.raised = "none"
    /\ hist.acc.id = 2
    /\ rec.new_user[2]
    /\ ~rec.new_user[1]
    /\ ~rec.user_enabled[2]

\* C30: reset_flags() makes new_error, new_status and both new-value flags
\* false and changes no other field of the Record.
C30_ResetFlagsExact ==
    [][AccStep("reset_flags") =>
          /\ ~rec'.new_error
          /\ ~rec'.new_status
          /\ \A k \in 1..2 : ~rec'.new_user[k]
          /\ \A f \in DOMAIN rec \ {"new_error", "new_status", "new_user"} :
                rec'[f] = rec[f]
      ]_vars

C30_Witness ==
    /\ hist.acc.op = "reset_flags"
    /\ rec.error_count = 1
    /\ rec.display_text_set
    /\ ~rec.new_error
    /\ ~rec.new_status
    /\ ~rec.new_user[1]

(***************************************************************************)
(* The counters                                                            *)
(***************************************************************************)
CntStep(op) == hist'.cnt # hist.cnt /\ hist'.cnt.op = op

\* the argument of increment_metrics that is added to a counter
DeltaOf(a, f) ==
    CASE f = "write_operations" -> a.write_ops
      [] f = "read_operations" -> a.read_ops
      [] f = "verify_operations" -> a.verify_ops
      [] f = "error_count" -> a.error_count

\* C31: increment_metrics changes each of the four counters on its own: a
\* delta above zero makes the counter old + delta, a delta of zero or less
\* leaves it as it was and raises nothing; no other field changes.
C31_IncrementMetrics ==
    [][CntStep("increment_metrics") =>
          LET a == hist'.cnt.args
              Counted == OperationCounters \cup {"error_count"}
          IN  /\ hist'.cnt.raised = "none"
              /\ \A f \in Counted :
                    rec'[f] = IF DeltaOf(a, f) > 0 THEN rec[f] + DeltaOf(a, f)
                              ELSE rec[f]
              /\ \A f \in DOMAIN rec \ Counted : rec'[f] = rec[f]
      ]_vars

\* C32: the cycle counter and the write, read and verify operation
\* counters never decrease, whatever operations of the accessor are called.
C32_CountersNeverDecrease ==
    [][\A f \in OperationCounters \cup {"cycle"} : rec'[f] >= rec[f]]_vars

(***************************************************************************)
(* The plug-in's stores and the host                                       *)
(***************************************************************************)
\* the plug-in has just made the store of `field`
Stored(field) == hist'.step.writes = Append(hist.step.writes, field)

\* the text a notification flag announces
TextOf(flag) == IF flag = "new_status" THEN "status" ELSE "error_message"

\* C33: in the status and error_message setters the text is stored before
\* the flag is raised: when the flag is stored, the last store of the call
\* was the text, and the field holds the text of this call.
C33_PayloadBeforeFlag ==
    [][\A flag \in {"new_status", "new_error"} :
          Stored(flag) =>
              /\ hist.step.writes # <<>>
              /\ hist.step.writes[Len(hist.step.writes)] = TextOf(flag)
              /\ GetText(rec, TextOf(flag)) = hist.step.call.text
              /\ GetText(rec', TextOf(flag)) = hist.step.call.text
      ]_vars

C33_Witness ==
    /\ InCall
    /\ hist.step.call.call = "error_message"
    /\ hist.step.writes = <<"error_message">>
    /\ GetText(rec, "error_message") = TextA
    /\ GetText(hist.step.old, "error_message") = <<>>
    /\ ~rec.new_error

\* the Record without the fields the host stores into
PluginFields(r) ==
    [r EXCEPT !.test_running = 0, !.duty_cycle = 0, !.new_error = FALSE]

\* C34: a successful set_error leaves the Record as the assignments of
\* error_message, error_severity, error_count + 1 and error_long in this
\* order leave it, makes its stores in that order, and raises error_count
\* by exactly 1.
C34_SetErrorIsSetterSequence ==
    [][(/\ hist.step.call.call = "set_error"
        /\ InCall
        /\ hist'.step.at > Len(hist.step.steps)
        /\ hist'.step.raised = "none") =>
          LET c == hist.step.call
              old == hist.step.old
              m == SetText(old, "error_message", c.text).rec
              s == [m EXCEPT !.error_severity = c.severity]
              n == SetCounter(s, "error_count", s.error_count + 1).rec
              l == IF c.long = <<>> THEN n
                   ELSE SetText(n, "error_long", c.long).rec
          IN  /\ PluginFields(rec') = PluginFields(l)
              /\ hist'.step.writes =
                    <<"error_message", "new_error", "error_severity",
                      "error_count">>
                        \o (IF c.long = <<>> THEN <<>> ELSE <<"error_long">>)
              /\ rec'.error_count = old.error_count + 1
      ]_vars

\* C35: no field is stored into by both sides: a step of the host changes
\* only test_running and duty_cycle, a step of the plug-in changes neither.
C35_NoSharedWriter ==
    [][/\ hist'.step # hist.step =>
            /\ rec'.test_running = rec.test_running
            /\ rec'.duty_cycle = rec.duty_cycle
       /\ hist'.step = hist.step =>
            \A f \in DOMAIN rec \ {"test_running", "duty_cycle"} :
                rec'[f] = rec[f]
      ]_vars

\* C39: in set_error the store that raises new_error comes while the
\* severity and the error count are still those of before the call: after
\* it the flag is true, the new message is stored, severity and count are
\* old.
C39_FlagBeforeSeverityAndCount ==
    [][(hist.step.call.call = "set_error" /\ Stored("new_error")) =>
          /\ rec'.new_error
          /\ GetText(rec', "error_message") = hist.step.call.text
          /\ rec'.error_severity = hist.step.old.error_severity
          /\ rec'.error_count = hist.step.old.error_count
          /\ "error_severity" \notin {hist'.step.writes[i] :
                                         i \in 1..Len(hist'.step.writes)}
      ]_vars

\* the host has read the count and the message between the two stores
C39_Witness ==
    /\ hist.step.call.call = "set_error"
    /\ hist.step.writes = <<"error_message", "new_error">>
    /\ hist.step.call.severity = SEVERITY_CRITICAL
    /\ hist.host.at = "clear"
    /\ hist.host.seen.error_message = TextSpecial
    /\ hist.host.seen.error_count = 0
    /\ rec.new_error
    /\ rec.error_severity = SEVERITY_NONE

(***************************************************************************)
(* The layout of the Record                                                *)
(***************************************************************************)
RECURSIVE SumOfWidths(_)
SumOfWidths(k) ==
    IF k = 0 THEN 0 ELSE SumOfWidths(k - 1) + SizeOfField(StructureFields[k])

\* C36: the Record is packed: in the plug-in's view and in the host's view
\* every field placed lies at the sum of the widths of the fields before
\* it, and the two complete structures have the same size.
C36_PackedSameLayout ==
    /\ \A v \in {hist.plugin_view, hist.host_view} :
          \A k \in 1..v.placed : v.offsets[k] = SumOfWidths(k - 1)
    /\ (/\ hist.plugin_view.placed = Len(StructureFields)
        /\ hist.host_view.placed = Len(StructureFields))
          => SizeOfStructure(hist.plugin_view) = SizeOfStructure(hist.host_view)

(***************************************************************************)
(* The engine: input fields, the running flag, reports to on_error         *)
(***************************************************************************)
\* C37: no step of the engine, the connection or the accessor changes
\* test_running or duty_cycle: a step that changes one of them is a step of
\* the host and nothing else.
C37_InputsOnlyRead ==
    [][(rec'.test_running # rec.test_running
            \/ rec'.duty_cycle # rec.duty_cycle) =>
          UNCHANGED <<pc, is_running, current_cycle, current_phase, phase_idx,
                      eng_connection, eng_interface, conn, os, exc, exc_len,
                      sleep_time, plugin, hist>>
      ]_vars

C37_Witness ==
    /\ pc = "done"
    /\ hist.established
    /\ rec.test_stopped
    /\ rec.status_code = PLUGIN_CLEANUP
    /\ rec.test_running = 1
    /\ rec.duty_cycle = 50

\* C38 as stated: after run() returns or raises on any path, the rejection
\* by the guard included, the running flag is false.
C38_FlagClearOnAnyPath ==
    [][((pc' = "done" /\ pc # "done") \/ hist'.rejected # hist.rejected)
          => ~is_running']_vars

\* C38: after a run() that passed the guard has returned or raised, the
\* running flag is false.
C38_FlagClearAfterRun == pc = "done" => ~is_running

C38_Witness ==
    /\ pc = "done"
    /\ hist.result = "raised"
    /\ hist.on_stop_at = "cleanup_stop"
    /\ ~Disconnected
    /\ ~is_running

\* C40: a phase failure (the callback returned False or raised) is reported
\* to on_error once, by the phases' own handler, and does not reach the
\* loop's handler; an exception that reaches the loop's handler is reported
\* to on_error there and once more by run()'s handler, before cleanup.
C40_OnErrorReports ==
    /\ [][(pc = "loop_except" /\ pc' # pc) =>
             (hist'.on_error = hist.on_error + 1 /\ pc' = "run_except")]_vars
    /\ [][(pc = "run_except" /\ pc' # pc) =>
             (hist'.on_error = hist.on_error + 1 /\ pc' = "cleanup")]_vars
    /\ []((pc = "test_end" /\ hist.fail # "none") =>
             hist.on_error = hist.snap.on_error + 1)
    /\ []((pc = "loop_except" /\ hist.fail # "none") =>
             hist.on_error = hist.snap.on_error + 1)

====
